---- MODULE Spec2Model ----
(***************************************************************************)
(* Model of the crawl engine of src/tool.py (extract_links), the politeness *)
(* gate of src/util.py (is_allowed_by_robots) and the scope predicate       *)
(* shared by extract_links and discover_links.                              *)
(*                                                                          *)
(* A URL is a sequence of tokens: the scheme token, the tokens of the       *)
(* netloc, one path token, and then the separators "?" and "#" with the     *)
(* tokens that follow them.  str.split, str.startswith, the substring test  *)
(* and urlparse(...).netloc are computed on these sequences.                *)
(***************************************************************************)
EXTENDS Integers, Sequences, FiniteSets, TLC

\* ------------------------------------------------------------ bounds
MaxPageLimit == 3
MaxHostLen == 2
MaxAnchors == 3
MaxSelectors == 2
MaxScrolls == 2
MaxLinks == 2
MaxKeywords == 2
MaxRobotsLines == 2
MaxLocs == 2
MaxChildren == 2
MaxHeight == 2
MaxMeasures == 3

\* the default of max_pages (tool.py 219)
DefaultMaxPages == 50

\* ------------------------------------------------------------ strings
HttpSchemes == {"http://", "https://"}
PathTokens == {"/", "/p", "/q", "/r", "/s"}

\* s.split(sep)[0]: the part of s before the first sep (all of s without one)
RECURSIVE split0(_, _)
split0(s, sep) ==
    IF s = <<>> \/ Head(s) = sep THEN <<>>
    ELSE <<Head(s)>> \o split0(Tail(s), sep)

\* str.lower(), token by token
lower_tok(t) ==
    CASE t = "Application/JSON" -> "application/json"
      [] t = "API" -> "api"
      [] t = "Docs" -> "docs"
      [] t = "Reference" -> "reference"
      [] t = "Sitemap" -> "sitemap"
      [] t = "SITEMAP" -> "sitemap"
      [] OTHER -> t

lower(s) == [i \in 1..Len(s) |-> lower_tok(s[i])]

\* str.strip(): leading and trailing whitespace removed
RECURSIVE lstrip(_)
lstrip(s) == IF s # <<>> /\ Head(s) = " " THEN lstrip(Tail(s)) ELSE s

RECURSIVE rstrip(_)
rstrip(s) ==
    IF s # <<>> /\ s[Len(s)] = " " THEN rstrip(SubSeq(s, 1, Len(s) - 1)) ELSE s

strip(s) == rstrip(lstrip(s))

\* s.split(sep, 1)[1]: the part of s after the first sep
RECURSIVE split1_rest(_, _)
split1_rest(s, sep) ==
    IF s = <<>> THEN <<>>
    ELSE IF Head(s) = sep THEN Tail(s)
    ELSE split1_rest(Tail(s), sep)

\* s.startswith(prefix)
startswith(s, prefix) == Len(s) >= Len(prefix) /\ SubSeq(s, 1, Len(prefix)) = prefix

\* link.startswith("http")
startswith_http(s) == s # <<>> /\ Head(s) \in HttpSchemes

\* a in b, for two strings
str_in(a, b) ==
    \E i \in 0..(Len(b) - Len(a)) : SubSeq(b, i + 1, i + Len(a)) = a

\* the netloc runs from after "//" to the first of "/", "?", "#"
RECURSIVE netloc_of(_)
netloc_of(s) ==
    IF s = <<>> \/ Head(s) \in PathTokens \cup {"?", "#"} THEN <<>>
    ELSE <<Head(s)>> \o netloc_of(Tail(s))

\* urlparse(u).netloc: empty unless the scheme is followed by "//"
urlparse_netloc(u) ==
    IF startswith_http(u) THEN netloc_of(Tail(u)) ELSE <<>>

\* ------------------------------------------------------------ scope
\* faulty variant: subdomain tested by containment, like domain
scope_skips_mut(s, netloc, start) ==
    \/ s = "subdomain" /\ ~str_in(start, netloc)
    \/ s = "domain" /\ ~str_in(start, netloc)

\* faulty variant: the domain scope skips the start host itself
scope_skips_strict_mut(s, netloc, start) ==
    \/ s = "subdomain" /\ netloc # start
    \/ s = "domain" /\ (~str_in(start, netloc) \/ netloc = start)

\* the `continue` guards: whether a candidate host is skipped (tool.py 289-292 at
\* dequeue, and the same two tests in discover_links, tool.py 173-178)
scope_skips(s, netloc, start) ==
    \/ s = "subdomain" /\ netloc # start
    \/ s = "domain" /\ ~str_in(start, netloc)

\* faulty variant: the host is not compared
scope_enqueues_mut(s, netloc, start) ==
    s \in {"subdomain", "domain"}

\* faulty variant: a scope that is neither subdomain nor domain keeps the links of
\* the start host
scope_enqueues_path_mut(s, netloc, start) ==
    \/ s = "subdomain" /\ netloc = start
    \/ s = "domain" /\ str_in(start, netloc)
    \/ s \notin {"subdomain", "domain"} /\ netloc = start

\* the guards of queue.append in the link loop (tool.py 336-345)
scope_enqueues(s, netloc, start) ==
    \/ s = "subdomain" /\ netloc = start
    \/ s = "domain" /\ str_in(start, netloc)

\* ------------------------------------------------------------ normalization
\* the key of the visited set for a dequeued entry (tool.py 281-283)
visit_url_of(current_url, ignore_q) ==
    IF ignore_q THEN split0(current_url, "?") ELSE current_url

\* what the link loop does to an href before the scope test (tool.py 331-333)
normalize_link(link, ignore_q) ==
    LET l1 == split0(link, "#")
    IN  IF ignore_q THEN split0(l1, "?") ELSE l1

\* ------------------------------------------------------------ politeness gate
RobotsResponses ==
    {[fetch |-> f, status_code |-> 0, parse |-> "none", can_fetch |-> FALSE] :
        f \in {"timeout", "error"}}
    \cup {[fetch |-> "ok", status_code |-> c, parse |-> "none", can_fetch |-> FALSE] :
        c \in {404, 500}}
    \cup {[fetch |-> "ok", status_code |-> 200, parse |-> "raises", can_fetch |-> FALSE]}
    \cup {[fetch |-> "ok", status_code |-> 200, parse |-> "ok", can_fetch |-> b] :
        b \in BOOLEAN}

NoResponse == [fetch |-> "none", status_code |-> 0, parse |-> "none", can_fetch |-> FALSE]

\* faulty variant: a failed request denies
is_allowed_by_robots_mut(resp) ==
    IF resp.fetch # "ok" THEN FALSE
    ELSE IF resp.status_code = 200
         THEN (IF resp.parse = "raises" THEN TRUE ELSE resp.can_fetch)
         ELSE TRUE

\* util.is_allowed_by_robots for one outcome of the robots.txt request (util.py 167-193)
is_allowed_by_robots(resp) ==
    IF resp.fetch # "ok" THEN TRUE                    \* inner except: fail open
    ELSE IF resp.status_code = 200
         THEN (IF resp.parse = "raises" THEN TRUE     \* inner except: fail open
               ELSE resp.can_fetch)
         ELSE TRUE                                    \* falls through to return True

\* ------------------------------------------------------------ the web
Ex == <<"example.com">>
AEx == <<"a.", "example.com">>
OtherOrg == <<"other.org">>

U(host, path, rest) == <<"http://">> \o host \o <<path>> \o rest

Home == U(Ex, "/", <<>>)
P == U(Ex, "/p", <<>>)
Pfrag == U(Ex, "/p", <<"#", "s">>)
Pq == U(Ex, "/p", <<"?", "x">>)
Pqf == U(Ex, "/p", <<"?", "x", "#", "s">>)
Q == U(Ex, "/q", <<>>)
R == U(Ex, "/r", <<>>)
S == U(Ex, "/s", <<>>)
AHome == U(AEx, "/", <<>>)
AP == U(AEx, "/p", <<>>)
OtherHome == U(OtherOrg, "/", <<>>)
Mail == <<"mailto:", "x">>

\* an anchor of a rendered page: e.href, and which selector of tool.py 313-326
\* besides "a" matches it ("next": a[rel='next'] / Next / Previous; "nav": aside,
\* .sidebar or nav)
A(href, kind) == [href |-> href, kind |-> kind]

SiteChain ==
    (Home :> <<A(P, "next"), A(Pfrag, "plain"), A(AHome, "nav"), A(Q, "nav")>>)
    @@ (P :> <<A(Q, "next"), A(Home, "plain")>>)
    @@ (Q :> <<A(R, "next"), A(P, "nav")>>)
    @@ (R :> <<A(S, "next"), A(S, "nav")>>)
    @@ (S :> <<A(Home, "next")>>)
    @@ (AHome :> <<A(Pq, "nav"), A(OtherHome, "plain")>>)

SiteMixed ==
    (Home :> <<A(Pq, "plain"), A(Mail, "nav"), A(P, "next"), A(OtherHome, "nav"),
               A(Pqf, "next")>>)
    @@ (P :> <<A(Pfrag, "next"), A(Q, "plain"), A(AHome, "nav")>>)
    @@ (Pq :> <<A(Q, "nav"), A(Home, "next")>>)
    @@ (Q :> <<A(P, "next"), A(P, "plain")>>)

SiteWeb ==
    (Home :> <<A(AHome, "plain"), A(P, "nav"), A(Q, "next"), A(Home, "plain")>>)
    @@ (AHome :> <<A(Home, "next"), A(AP, "nav"), A(Pq, "plain")>>)
    @@ (AP :> <<A(AHome, "next"), A(S, "plain")>>)
    @@ (P :> <<A(P, "plain"), A(Pqf, "next"), A(R, "nav")>>)
    @@ (Q :> <<A(S, "next"), A(Mail, "plain"), A(OtherHome, "nav")>>)
    @@ (S :> <<A(Q, "next")>>)
    @@ (R :> <<A(Home, "nav")>>)

Sites == {SiteChain, SiteMixed, SiteWeb}
StartUrls == {Home, Pfrag, Pq, AHome}
Topologies == {"mesh", "linear", "hub_and_spoke", "sidebar"}
Scopes == {"subdomain", "domain", "path"}
PageLimits == {-1} \cup (0..MaxPageLimit) \cup {DefaultMaxPages}

\* the anchors the server returns for a URL: the fragment is not sent
anchors_of(st, u) ==
    LET key == split0(u, "#")
    IN  IF key \in DOMAIN st
        THEN SubSeq(st[key], 1, IF Len(st[key]) < MaxAnchors THEN Len(st[key]) ELSE MaxAnchors)
        ELSE <<>>

\* page.eval_on_selector_all(<selector of the topology>, e => e.href) (tool.py 310-326)
select_links(topo, anchors) ==
    LET sel(a) == CASE topo = "linear" -> a.kind = "next"
                    [] topo = "sidebar" -> a.kind = "nav"
                    [] OTHER -> TRUE
        kept == SelectSeq(anchors, sel)
    IN  [i \in 1..Len(kept) |-> kept[i].href]

\* ------------------------------------------------------------ state
VARIABLES
    url, topology, scope, ignore_queries, max_pages,   \* arguments of extract_links
    site,                                              \* the site being crawled
    start_domain, depth_limit,                         \* tool.py 267, 272
    found_urls, queue, visited,                        \* tool.py 268-270
    pc, cur, browser,                                  \* position, (current_url, current_depth)
    robots_resp, robots_ret,                           \* the gate's last request and answer
    fetch_outcome,                                     \* how the last expansion ended
    denied, navigated, visited_from,                   \* history of the run
    sc,                                                \* one evaluation of the scope predicate
    ec,                                                \* one extract_content call
    dl,                                                \* one discover_links call
    sm,                                                \* one get_sitemap_urls call
    rb,                                                \* one selection of sitemap candidates
    ins,                                               \* one inspect_site call
    cc,                                                \* extract_links calls running concurrently
    scr                                                \* one auto_scroll call

args == <<url, topology, scope, ignore_queries, max_pages, site, start_domain, depth_limit>>
crawl == <<found_urls, queue, visited, pc, cur, browser, robots_resp, robots_ret,
           fetch_outcome, denied, navigated, visited_from>>
single_calls == <<ec, dl, sm, rb, ins, cc, scr>>
vars == <<args, crawl, sc, single_calls>>

NoEntry == [url |-> <<>>, depth |-> 0, raw |-> <<>>]
NoScope == [scope |-> "none", cand |-> <<>>, start |-> <<>>, skip |-> FALSE, enqueue |-> FALSE]

\* no extract_content call in progress
NoContent ==
    [pc |-> "idle", click_selectors |-> 0, screenshot |-> FALSE,
     head |-> "none", content_type |-> <<>>, body |-> "none",
     result |-> [markdown |-> "None", screenshot |-> "None", type |-> "None",
                 title |-> FALSE, url |-> FALSE, error |-> FALSE],
     browser |-> "none", launched |-> FALSE, selector |-> 1, clicks |-> <<>>,
     scrolls |-> 0, failed |-> "none"]

\* no discover_links call in progress
NoDiscovery ==
    [pc |-> "idle", keywords |-> <<>>, scope |-> "none", page |-> <<>>, i |-> 1,
     discovered |-> <<>>, result |-> <<>>, browser |-> "none", failed |-> "none"]

\* no get_sitemap_urls call in progress
NoSitemap ==
    [pc |-> "idle", allowed_domain |-> <<>>, sitemap_urls |-> <<>>, k |-> 1,
     children |-> <<>>, j |-> 1, urls |-> <<>>,
     filtered |-> {}, failed_with_urls |-> FALSE, grew_after_failure |-> FALSE,
     read_index |-> FALSE]

\* no selection of sitemap candidates evaluated
NoSelection == [fetch |-> "none", status_code |-> 0, text |-> <<>>, sitemap_urls |-> <<>>]

\* no inspect_site call in progress; result is initialised at tool.py 49
NoInspection ==
    [pc |-> "idle", browser |-> "none",
     result |-> [title |-> FALSE, description |-> "unset", keywords |-> "unset",
                 navigation |-> <<>>, error |-> FALSE,
                 total_urls |-> -1, structure_hint |-> {}],
     section |-> 1, anchors |-> <<>>, sitemap_urls |-> <<>>, failures |-> {}]

\* no concurrent extract_links calls in progress
NoCalls == [calls |-> <<>>, denies |-> {}, fails |-> {}]

\* no auto_scroll call in progress
NoScroll ==
    [pc |-> "idle", heights |-> <<>>, cycles |-> FALSE, last_height |-> 0,
     n |-> 0, scrolls |-> 0]

FetchOutcomes == {"ok", "new_page_fail", "goto_fail", "eval_fail", "close_fail"}

\* tool.py 272
depth_limit_of(topo) == IF topo = "hub_and_spoke" THEN 1 ELSE 3

Init ==
    /\ url \in StartUrls
    /\ topology \in Topologies
    /\ scope \in Scopes
    /\ ignore_queries \in BOOLEAN
    /\ max_pages \in PageLimits
    /\ site \in Sites
    /\ start_domain = urlparse_netloc(url)
    /\ depth_limit = depth_limit_of(topology)
    /\ found_urls = {}
    /\ queue = <<[url |-> url, depth |-> 0, raw |-> url]>>
    /\ visited = {}
    /\ pc = "launch"
    /\ cur = NoEntry
    /\ browser = "none"
    /\ robots_resp = NoResponse
    /\ robots_ret = "none"
    /\ fetch_outcome = "none"
    /\ denied = {}
    /\ navigated = <<>>
    /\ visited_from = {}
    /\ sc = NoScope
    /\ ec = NoContent
    /\ dl = NoDiscovery
    /\ sm = NoSitemap
    /\ rb = NoSelection
    /\ ins = NoInspection
    /\ cc = NoCalls
    /\ scr = NoScroll

\* ------------------------------------------------------------ extract_links
\* async with async_playwright(): util.get_stealth_context(p) (tool.py 274-275)
Launch ==
    /\ pc = "launch"
    /\ \E ok \in BOOLEAN :
        IF ok THEN browser' = "open" /\ pc' = "loop"
        ELSE browser' = browser /\ pc' = "raised"
    /\ UNCHANGED <<args, found_urls, queue, visited, cur, robots_resp, robots_ret,
                   fetch_outcome, denied, navigated, visited_from, sc, single_calls>>

\* faulty variant: <= in place of <
loop_continues_mut == queue # <<>> /\ Cardinality(found_urls) <= max_pages

\* the loop condition (tool.py 277)
loop_continues == queue # <<>> /\ Cardinality(found_urls) < max_pages

\* faulty variant: the entry is read but not removed
popleft_rest_mut(q) == q

\* what queue.popleft() leaves in the queue (tool.py 278)
popleft_rest(q) == Tail(q)

\* the second disjunct of the skip test (tool.py 285)
too_deep(depth) == depth > depth_limit

\* one entry is taken from the queue; it is dropped when already visited, too deep
\* or out of scope, and goes to the robots check otherwise (tool.py 277-292)
Dequeue ==
    /\ pc = "loop"
    /\ loop_continues
    /\ LET e == Head(queue)
           visit_url == visit_url_of(e.url, ignore_queries)
       IN  /\ queue' = popleft_rest(queue)
           /\ IF visit_url \in visited \/ too_deep(e.depth)
              THEN pc' = "loop" /\ cur' = NoEntry
              ELSE IF scope_skips(scope, urlparse_netloc(e.url), start_domain)
              THEN pc' = "loop" /\ cur' = NoEntry
              ELSE pc' = "robots" /\ cur' = e
    /\ robots_resp' = NoResponse
    /\ robots_ret' = "none"
    /\ fetch_outcome' = "none"
    /\ UNCHANGED <<args, found_urls, visited, browser, denied, navigated, visited_from, sc, single_calls>>

\* the loop ends: browser.close() and return list(found_urls) (tool.py 277, 350-352)
LoopExit ==
    /\ pc = "loop"
    /\ ~loop_continues
    /\ browser' = "closed"
    /\ pc' = "done"
    /\ UNCHANGED <<args, found_urls, queue, visited, cur, robots_resp, robots_ret,
                   fetch_outcome, denied, navigated, visited_from, sc, single_calls>>

\* faulty variant: <= in place of <
expands_mut(depth) == depth <= depth_limit

\* faulty variant: every visited page is expanded
expands_always_mut(depth) == TRUE

\* whether the page just marked visited is expanded (tool.py 302)
expands(depth) == depth < depth_limit

\* faulty variant: the URL is not added
found_add_mut(found, current_url) == found

\* found_urls.add(current_url) (tool.py 300)
found_add(found, current_url) == found \cup {current_url}

\* faulty variant: the answer of the gate is ignored
gate_passes_mut(allowed) == TRUE

\* `if not await util.is_allowed_by_robots(current_url): continue` (tool.py 296-297)
gate_passes(allowed) == allowed

\* await util.is_allowed_by_robots(current_url), then visited.add / found_urls.add
\* (tool.py 295-302)
Robots ==
    /\ pc = "robots"
    /\ \E resp \in RobotsResponses :
        LET allowed == is_allowed_by_robots(resp)
            visit_url == visit_url_of(cur.url, ignore_queries)
        IN  /\ robots_resp' = resp
            /\ robots_ret' = IF allowed THEN "allow" ELSE "deny"
            /\ IF ~gate_passes(allowed)
               THEN /\ pc' = "loop"
                    /\ denied' = denied \cup {cur.url}
                    /\ UNCHANGED <<visited, found_urls, visited_from>>
               ELSE /\ visited' = visited \cup {visit_url}
                    /\ found_urls' = found_add(found_urls, cur.url)
                    /\ visited_from' = visited_from \cup {<<cur.raw, visit_url>>}
                    /\ denied' = denied
                    /\ pc' = IF expands(cur.depth) THEN "fetch" ELSE "loop"
    /\ UNCHANGED <<args, queue, cur, browser, fetch_outcome, navigated, sc, single_calls>>

\* faulty variant: only the first link of the page is looked at
new_entries_mut(links, depth) ==
    IF links = <<>> \/ ~startswith_http(normalize_link(links[1], ignore_queries))
       \/ ~scope_enqueues(scope, urlparse_netloc(normalize_link(links[1], ignore_queries)),
                          start_domain)
    THEN <<>>
    ELSE <<[url |-> normalize_link(links[1], ignore_queries), depth |-> depth + 1,
            raw |-> links[1]]>>

\* the entries the link loop appends for the hrefs of one page (tool.py 330-345)
new_entries(links, depth) ==
    LET cand == [i \in 1..Len(links) |->
                    [url |-> normalize_link(links[i], ignore_queries),
                     depth |-> depth + 1,
                     raw |-> links[i]]]
        keep(e) == /\ startswith_http(e.url)
                   /\ scope_enqueues(scope, urlparse_netloc(e.url), start_domain)
    IN  SelectSeq(cand, keep)

\* faulty variant: a failed navigation still enqueues the links
expansion_mut(outcome, links, depth) ==
    IF outcome \in {"ok", "goto_fail"} THEN new_entries(links, depth) ELSE <<>>

\* what an expansion that ended with `outcome` appends to the queue, `links` being
\* the hrefs the page has for the selector: every step from new_page to page.close
\* is inside the try, the link loop comes after them (tool.py 303-348)

expansion(outcome, links, depth) ==
    IF outcome = "ok" THEN new_entries(links, depth) ELSE <<>>

\* faulty variant: the new entries go to the front of the queue
enqueue_mut(q, entries) == entries \o q

\* queue.append for each kept link, in link order (tool.py 345)
enqueue(q, entries) == q \o entries

\* the try block of one page (tool.py 303-348)
Fetch ==
    /\ pc = "fetch"
    /\ \E outcome \in FetchOutcomes,
          links \in {select_links(topology, anchors_of(site, cur.url))} :
        /\ fetch_outcome' = outcome
        \* page.goto is reached unless new_page or apply_stealth raised
        /\ navigated' = IF outcome = "new_page_fail" THEN navigated
                        ELSE Append(navigated, cur.url)
        /\ queue' = enqueue(queue, expansion(outcome, links, cur.depth))
    /\ pc' = "loop"
    /\ UNCHANGED <<args, found_urls, visited, cur, browser, robots_resp, robots_ret,
                   denied, visited_from, sc, single_calls>>

Next == Launch \/ Dequeue \/ LoopExit \/ Robots \/ Fetch

Spec == Init /\ [][Next]_vars

\* ------------------------------------------------------------ the scope predicate alone
HostTokens == {"a.", "example.com", "other.org"}
Hosts == UNION {[1..n -> HostTokens] : n \in 0..MaxHostLen}

ScopeInit ==
    /\ Init
    /\ url = Home /\ topology = "mesh" /\ scope = "subdomain"
    /\ ignore_queries /\ max_pages = DefaultMaxPages /\ site = SiteChain

\* one evaluation of both guards, for any scope value, candidate host and start host
ScopeCheck ==
    /\ sc = NoScope
    /\ \E s \in Scopes, c \in Hosts, h \in Hosts :
        sc' = [scope |-> s, cand |-> c, start |-> h,
               skip |-> scope_skips(s, c, h),
               enqueue |-> scope_enqueues(s, c, h)]
    /\ UNCHANGED <<args, crawl, single_calls>>

ScopeNext == ScopeCheck

ScopeSpec == ScopeInit /\ [][ScopeNext]_vars

\* ------------------------------------------------------------ extract_content
\* values of the Content-Type header of the HEAD response; <<>> is a missing header
\* (head.headers.get("Content-Type", ""), tool.py 411)
ContentTypes ==
    {<<>>, <<"text/html", "; charset=utf-8">>, <<"application/pdf">>,
     <<"application/json">>, <<"Application/JSON", "; charset=utf-8">>}

\* faulty variant: a JSON content type is rendered like HTML
probe_branch_mut(content_type) ==
    IF str_in(<<"application/pdf">>, lower(content_type)) THEN "pdf" ELSE "render"

\* faulty variant: the PDF test is missing
probe_branch_nopdf_mut(content_type) ==
    IF str_in(<<"application/json">>, lower(content_type)) THEN "json" ELSE "render"

\* the branch taken on the probed content type (tool.py 411-417)
probe_branch(content_type) ==
    LET ct == lower(content_type)
    IN  IF str_in(<<"application/pdf">>, ct) THEN "pdf"
        ELSE IF str_in(<<"application/json">>, ct) THEN "json"
        ELSE "render"

ContentInit ==
    /\ Init
    /\ url = Home /\ topology = "mesh" /\ scope = "subdomain"
    /\ ignore_queries /\ max_pages = DefaultMaxPages /\ site = SiteChain

\* a call extract_content(url, click_selectors, screenshot); result is initialised
\* at tool.py 405
ContentCall ==
    /\ ec.pc = "idle"
    /\ \E n \in 0..MaxSelectors, shot \in BOOLEAN :
        ec' = [ec EXCEPT !.pc = "probe", !.click_selectors = n, !.screenshot = shot]
    /\ UNCHANGED <<args, crawl, sc, dl, sm, rb, ins, cc, scr>>

\* faulty variant: the failure of the probe ends the call with an error
probe_failed_mut(c) ==
    [c EXCEPT !.head = "fail", !.result.error = TRUE, !.pc = "returned"]

\* `except Exception: pass` around the probe (tool.py 424-425): the call goes on to
\* the renderer
probe_failed(c) == [c EXCEPT !.head = "fail", !.pc = "launch"]

\* client.head(url, follow_redirects=True, timeout=5) and the PDF branch
\* (tool.py 409-417); a raise is swallowed at 424-425
Probe ==
    /\ ec.pc = "probe"
    /\ \/ ec' = probe_failed(ec)
       \/ \E ct \in ContentTypes :
            LET branch == probe_branch(ct)
            IN  ec' = [ec EXCEPT
                        !.head = "ok", !.content_type = ct,
                        !.pc = CASE branch = "pdf" -> "returned"
                                 [] branch = "json" -> "get_body"
                                 [] OTHER -> "launch",
                        !.result.markdown =
                            IF branch = "pdf" THEN "pdf_placeholder" ELSE @,
                        !.result.type = IF branch = "pdf" THEN "pdf" ELSE @]
    /\ UNCHANGED <<args, crawl, sc, dl, sm, rb, ins, cc, scr>>

\* resp = client.get(url); json.dumps(resp.json(), indent=2) (tool.py 418-423); a raise
\* of either is swallowed at 424-425 and the call goes on to the renderer
GetBody ==
    /\ ec.pc = "get_body"
    /\ \E outcome \in {"ok", "get_fail", "decode_fail"} :
        ec' = [ec EXCEPT
                !.body = outcome,
                !.pc = IF outcome = "ok" THEN "returned" ELSE "launch",
                !.result.markdown = IF outcome = "ok" THEN "json_block" ELSE @,
                !.result.type = IF outcome = "ok" THEN "json" ELSE @]
    /\ UNCHANGED <<args, crawl, sc, dl, sm, rb, ins, cc, scr>>

\* browser, context = util.get_stealth_context(p) (tool.py 428, util.py 13-21):
\* chromium.launch, then browser.new_context; both outside the try
LaunchRenderer ==
    /\ ec.pc = "launch"
    /\ \E outcome \in {"ok", "launch_fail", "new_context_fail"} :
        ec' = [ec EXCEPT
                !.launched = TRUE,
                !.browser = IF outcome = "launch_fail" THEN @ ELSE "open",
                !.failed = IF outcome = "ok" THEN @ ELSE outcome,
                !.pc = IF outcome = "ok" THEN "new_page" ELSE "raised"]
    /\ UNCHANGED <<args, crawl, sc, dl, sm, rb, ins, cc, scr>>

\* page = context.new_page() (tool.py 429), outside the try
NewPage ==
    /\ ec.pc = "new_page"
    /\ \E ok \in BOOLEAN :
        ec' = [ec EXCEPT !.failed = IF ok THEN @ ELSE "new_page_fail",
                         !.pc = IF ok THEN "stealth" ELSE "raised"]
    /\ UNCHANGED <<args, crawl, sc, dl, sm, rb, ins, cc, scr>>

\* util.apply_stealth(page) (tool.py 430, util.py 24-31), outside the try
ApplyStealth ==
    /\ ec.pc = "stealth"
    /\ \E ok \in BOOLEAN :
        ec' = [ec EXCEPT !.failed = IF ok THEN @ ELSE "stealth_fail",
                         !.pc = IF ok THEN "goto" ELSE "raised"]
    /\ UNCHANGED <<args, crawl, sc, dl, sm, rb, ins, cc, scr>>

\* faulty variant: the failure is swallowed and the error is not recorded
caught_mut(c, step) == [c EXCEPT !.failed = step, !.pc = "close"]

\* except Exception as e: result["error"] = str(e) (tool.py 457-458); the finally
\* clause runs next
caught(c, step) ==
    [c EXCEPT !.result.error = TRUE, !.failed = step, !.pc = "close"]

\* page.goto(url, wait_until="networkidle", timeout=30000) (tool.py 433) and the
\* test `if click_selectors` (435)
Goto ==
    /\ ec.pc = "goto"
    /\ \E ok \in BOOLEAN :
        ec' = IF ok
              THEN [ec EXCEPT !.pc = IF ec.click_selectors > 0 THEN "click" ELSE "scroll"]
              ELSE caught(ec, "goto_fail")
    /\ UNCHANGED <<args, crawl, sc, dl, sm, rb, ins, cc, scr>>

\* faulty variant: a failed click ends the click loop
click_loop_continues_mut(selector, n, outcome) == outcome = "ok" /\ selector < n

\* whether the click loop has another selector after the one just handled, whatever
\* its outcome: `except Exception: pass` (tool.py 436-442)
click_loop_continues(selector, n, outcome) == selector < n

\* one selector of the click loop: page.click, page.wait_for_load_state, each
\* failure swallowed (tool.py 436-442)
Click ==
    /\ ec.pc = "click"
    /\ \E outcome \in {"ok", "click_fail", "wait_fail"} :
        ec' = [ec EXCEPT
                !.clicks = Append(@, outcome),
                !.selector = @ + 1,
                !.pc = IF click_loop_continues(ec.selector, ec.click_selectors, outcome)
                       THEN "click" ELSE "scroll"]
    /\ UNCHANGED <<args, crawl, sc, dl, sm, rb, ins, cc, scr>>

\* util.auto_scroll(page) (tool.py 444, util.py 34-45): one measurement of the page
\* height per step; the loop ends when the height did not change.  The page grows
\* at most MaxScrolls times.
AutoScroll ==
    /\ ec.pc = "scroll"
    /\ \E outcome \in {"same", "grew", "evaluate_fail"} :
        /\ outcome = "grew" => ec.scrolls < MaxScrolls
        /\ ec' = CASE outcome = "same" ->
                        [ec EXCEPT !.pc = IF ec.screenshot THEN "screenshot" ELSE "content"]
                   [] outcome = "grew" -> [ec EXCEPT !.scrolls = @ + 1]
                   [] OTHER -> caught(ec, "evaluate_fail")
    /\ UNCHANGED <<args, crawl, sc, dl, sm, rb, ins, cc, scr>>

\* result["screenshot"] = (await page.screenshot(type="png")).hex() (tool.py 446-449)
Screenshot ==
    /\ ec.pc = "screenshot"
    /\ \E ok \in BOOLEAN :
        ec' = IF ok THEN [ec EXCEPT !.result.screenshot = "hex", !.pc = "content"]
              ELSE caught(ec, "screenshot_fail")
    /\ UNCHANGED <<args, crawl, sc, dl, sm, rb, ins, cc, scr>>

\* page.content(), util.clean_html (never raises, util.py 48-56),
\* result["markdown"] = util.convert_to_markdown(...) (tool.py 451-453)
Content ==
    /\ ec.pc = "content"
    /\ \E outcome \in {"ok", "content_fail", "convert_fail"} :
        ec' = IF outcome = "ok"
              THEN [ec EXCEPT !.result.markdown = "page_markdown", !.pc = "title"]
              ELSE caught(ec, outcome)
    /\ UNCHANGED <<args, crawl, sc, dl, sm, rb, ins, cc, scr>>

\* result["metadata"]["title"] = await page.title(); result["metadata"]["url"] =
\* page.url (tool.py 454-455)
Title ==
    /\ ec.pc = "title"
    /\ \E ok \in BOOLEAN :
        ec' = IF ok THEN [ec EXCEPT !.result.title = TRUE, !.result.url = TRUE,
                                    !.pc = "close"]
              ELSE caught(ec, "title_fail")
    /\ UNCHANGED <<args, crawl, sc, dl, sm, rb, ins, cc, scr>>

\* finally: await browser.close() (tool.py 459-460); return result (462)
CloseRenderer ==
    /\ ec.pc = "close"
    /\ ec' = [ec EXCEPT !.browser = "closed", !.pc = "returned"]
    /\ UNCHANGED <<args, crawl, sc, dl, sm, rb, ins, cc, scr>>

ContentNext ==
    \/ ContentCall \/ Probe \/ GetBody \/ LaunchRenderer \/ NewPage \/ ApplyStealth
    \/ Goto \/ Click \/ AutoScroll \/ Screenshot \/ Content \/ Title \/ CloseRenderer

ContentSpec == ContentInit /\ [][ContentNext]_vars

\* ------------------------------------------------------------ discover_links
\* an <a> element of the page: its href attribute (<<>> when missing or empty), its
\* inner text, and whether reading it raises (the element left the DOM)
Anchor(href, text, detached) == [href |-> href, text |-> text, detached |-> detached]

ApiUrl == U(Ex, "/", <<"api">>)

PageAnchors ==
    {Anchor(<<"/", "api">>, <<" ", "API", " ", "Reference">>, FALSE),
     Anchor(ApiUrl, <<" ">>, FALSE),
     Anchor(U(AEx, "/", <<"Docs">>), <<"Docs">>, FALSE),
     Anchor(U(OtherOrg, "/", <<"api">>), <<"Docs">>, FALSE),
     Anchor(<<>>, <<"API">>, FALSE),
     Anchor(Home, <<"Docs">>, FALSE),
     Anchor(ApiUrl, <<"API">>, TRUE)}

Pages == UNION {[1..n -> PageAnchors] : n \in 0..MaxLinks}

Keywords == {<<"api">>, <<"Docs">>}
KeywordLists == UNION {[1..n -> Keywords] : n \in 0..MaxKeywords}

\* urljoin(url, href) for an absolute href and for a path relative to the root
urljoin(base, href) ==
    IF Head(href) \in HttpSchemes \cup {"mailto:"} THEN href
    ELSE <<Head(base)>> \o netloc_of(Tail(base)) \o href

\* faulty variant: the weights of the URL and the text match are exchanged
kw_hits_mut(kw, full_url, text) ==
    LET kw_lower == lower(kw)
        in_url == str_in(kw_lower, lower(full_url))
        in_text == str_in(kw_lower, lower(text))
    IN  [score |-> (IF in_url THEN 10 ELSE 0) + (IF in_text THEN 5 ELSE 0),
         matches |-> (IF in_url THEN <<<<"url:", kw>>>> ELSE <<>>)
                     \o (IF in_text THEN <<<<"text:", kw>>>> ELSE <<>>)]

\* the body of the keyword loop for one keyword (tool.py 185-191)
kw_hits(kw, full_url, text) ==
    LET kw_lower == lower(kw)
        in_url == str_in(kw_lower, lower(full_url))
        in_text == str_in(kw_lower, lower(text))
    IN  [score |-> (IF in_url THEN 5 ELSE 0) + (IF in_text THEN 10 ELSE 0),
         matches |-> (IF in_url THEN <<<<"url:", kw>>>> ELSE <<>>)
                     \o (IF in_text THEN <<<<"text:", kw>>>> ELSE <<>>)]

\* score and matches after the keyword loop (tool.py 180-191)
RECURSIVE keyword_matching(_, _, _)
keyword_matching(keywords, full_url, text) ==
    IF keywords = <<>> THEN [score |-> 0, matches |-> <<>>]
    ELSE LET n == Len(keywords)
             before == keyword_matching(SubSeq(keywords, 1, n - 1), full_url, text)
             hit == kw_hits(keywords[n], full_url, text)
         IN  [score |-> before.score + hit.score,
              matches |-> before.matches \o hit.matches]

\* what one pass of the anchor loop appends to discovered (tool.py 162-204);
\* anchor is the position of the element on the page, kept for the record only
discovered_from(a, anchor, keywords, s, base) ==
    IF a.detached THEN <<>>                            \* except Exception: continue
    ELSE IF a.href = <<>> THEN <<>>                    \* if not href: continue
    ELSE LET text == strip(a.text)
             full_url == urljoin(base, a.href)
             m == keyword_matching(keywords, full_url, text)
         IN  IF scope_skips(s, urlparse_netloc(full_url), urlparse_netloc(base))
             THEN <<>>
             ELSE IF m.score > 0
                  THEN <<[url |-> full_url, text |-> text, score |-> m.score,
                          matches |-> m.matches, anchor |-> anchor]>>
                  ELSE <<>>

\* faulty variant: an element goes before the elements of equal score
insert_by_score_mut(sorted, x) ==
    LET k == Cardinality({j \in 1..Len(sorted) : sorted[j].score > x.score})
    IN  SubSeq(sorted, 1, k) \o <<x>> \o SubSeq(sorted, k + 1, Len(sorted))

\* one element more in a list sorted by score, descending, after its equals
insert_by_score(sorted, x) ==
    LET k == Cardinality({j \in 1..Len(sorted) : sorted[j].score >= x.score})
    IN  SubSeq(sorted, 1, k) \o <<x>> \o SubSeq(sorted, k + 1, Len(sorted))

\* sorted(discovered, key=lambda x: x["score"], reverse=True) (tool.py 211)
RECURSIVE sorted_by_score(_)
sorted_by_score(s) ==
    IF s = <<>> THEN <<>>
    ELSE insert_by_score(sorted_by_score(SubSeq(s, 1, Len(s) - 1)), s[Len(s)])

DiscoverInit ==
    /\ Init
    /\ url = Home /\ topology = "mesh" /\ scope = "subdomain"
    /\ ignore_queries /\ max_pages = DefaultMaxPages /\ site = SiteChain

\* a call discover_links(url, keywords, scope) on a page with the given anchors;
\* discovered = [] (tool.py 149)
DiscoverCall ==
    /\ dl.pc = "idle"
    /\ \E kws \in KeywordLists, s \in Scopes, page \in Pages :
        dl' = [dl EXCEPT !.pc = "launch", !.keywords = kws, !.scope = s, !.page = page]
    /\ UNCHANGED <<args, crawl, sc, ec, sm, rb, ins, cc, scr>>

\* get_stealth_context, context.new_page, apply_stealth (tool.py 153-155), outside
\* the try
DiscoverOpen ==
    /\ dl.pc = "launch"
    /\ \E outcome \in {"ok", "launch_fail", "new_context_fail", "new_page_fail",
                       "stealth_fail"} :
        dl' = [dl EXCEPT
                !.browser = IF outcome = "launch_fail" THEN @ ELSE "open",
                !.failed = IF outcome = "ok" THEN @ ELSE outcome,
                !.pc = IF outcome = "ok" THEN "goto" ELSE "raised"]
    /\ UNCHANGED <<args, crawl, sc, ec, sm, rb, ins, cc, scr>>

\* page.goto and page.locator("a").all() (tool.py 158-159); a raise is printed
\* (206-207) and the finally clause runs
DiscoverGoto ==
    /\ dl.pc = "goto"
    /\ \E outcome \in {"ok", "goto_fail", "locator_fail"} :
        dl' = IF outcome = "ok"
              THEN [dl EXCEPT !.pc = IF dl.page = <<>> THEN "close" ELSE "anchor"]
              ELSE [dl EXCEPT !.failed = outcome, !.pc = "close"]
    /\ UNCHANGED <<args, crawl, sc, ec, sm, rb, ins, cc, scr>>

\* faulty variant: an exception on one anchor ends the loop
after_anchor_mut(a, i, n) == IF a.detached \/ i >= n THEN "close" ELSE "anchor"

\* where the loop goes after anchor i of n, whatever happened to it:
\* `except Exception: continue` (tool.py 161, 203-204)
after_anchor(a, i, n) == IF i < n THEN "anchor" ELSE "close"

\* one pass of `for a in anchors` (tool.py 161-204)
DiscoverAnchor ==
    /\ dl.pc = "anchor"
    /\ dl' = [dl EXCEPT
                !.discovered =
                    @ \o discovered_from(dl.page[dl.i], dl.i, dl.keywords, dl.scope, url),
                !.i = @ + 1,
                !.pc = after_anchor(dl.page[dl.i], dl.i, Len(dl.page))]
    /\ UNCHANGED <<args, crawl, sc, ec, sm, rb, ins, cc, scr>>

\* finally: browser.close(); return sorted(...) (tool.py 208-211)
DiscoverReturn ==
    /\ dl.pc = "close"
    /\ dl' = [dl EXCEPT !.browser = "closed", !.pc = "returned",
                        !.result = sorted_by_score(dl.discovered)]
    /\ UNCHANGED <<args, crawl, sc, ec, sm, rb, ins, cc, scr>>

DiscoverNext ==
    DiscoverCall \/ DiscoverOpen \/ DiscoverGoto \/ DiscoverAnchor \/ DiscoverReturn

DiscoverSpec == DiscoverInit /\ [][DiscoverNext]_vars

\* ------------------------------------------------------------ get_sitemap_urls
Sm1 == <<"http://", "example.com", "/sm1.xml">>

\* lines of a robots.txt
RobotsLines ==
    {<<"Sitemap", ":", " ">> \o Sm1,
     <<"sitemap", ":">> \o Sm1 \o <<" ">>,
     <<"User-agent", ":", " ", "*">>,
     <<" ", "Sitemap", ":", " ">> \o Sm1}

RobotsTexts == UNION {[1..n -> RobotsLines] : n \in 0..MaxRobotsLines}

\* the Sitemap: directives of a robots.txt (util.py 81-83)
RECURSIVE sitemap_lines(_)
sitemap_lines(lines) ==
    IF lines = <<>> THEN <<>>
    ELSE (IF startswith(lower(Head(lines)), <<"sitemap", ":">>)
          THEN <<strip(split1_rest(Head(lines), ":"))>> ELSE <<>>)
         \o sitemap_lines(Tail(lines))

\* urljoin(base_url, "/sitemap.xml") (util.py 88)
DefaultSitemap == <<"http://", "example.com", "/sitemap.xml">>

\* faulty variant: the fallback is always a candidate
sitemap_candidates_mut(fetch, status_code, text) ==
    (IF fetch = "ok" /\ status_code = 200 THEN sitemap_lines(text) ELSE <<>>)
    \o <<DefaultSitemap>>

\* sitemap_urls after the robots.txt request and the fallback (util.py 74-89)
sitemap_candidates(fetch, status_code, text) ==
    LET listed == IF fetch = "ok" /\ status_code = 200
                  THEN sitemap_lines(text) ELSE <<>>
    IN  IF listed = <<>> THEN <<DefaultSitemap>> ELSE listed

\* a <url> or <sitemap> element: the text of its <loc>, "missing" for an element
\* without <loc>, "invalid" for a text on which urlparse raises ValueError
Loc(text, form) == [text |-> text, form |-> form]

LocEntries ==
    {Loc(P, "ok"), Loc(AP, "ok"), Loc(<<>>, "missing"),
     Loc(<<"http://", "[">>, "invalid")}

UrlSets == UNION {[1..n -> LocEntries] : n \in 0..MaxLocs}

ChildEntries == {Loc(Sm1, "ok"), Loc(<<>>, "missing")}
ChildLists == UNION {[1..n -> ChildEntries] : n \in 0..MaxChildren}

AllowedDomains == {Ex, AEx}

\* faulty variant: the host is tested by containment, like the domain scope
loc_accepted_mut(loc, allowed_domain) ==
    loc.form = "ok" /\ str_in(allowed_domain, urlparse_netloc(loc.text))

\* loc is not None and urlparse(loc.text).netloc == allowed_domain
\* (util.py 117-120, 128-131)
loc_accepted(loc, allowed_domain) ==
    loc.form = "ok" /\ urlparse_netloc(loc.text) = allowed_domain

\* the loop over the <url> elements of one urlset (util.py 110-121, 126-132): the
\* URLs appended, up to the element on which urlparse raises
RECURSIVE collect_urls(_, _)
collect_urls(urlset, allowed_domain) ==
    IF urlset = <<>> \/ Head(urlset).form = "invalid" THEN <<>>
    ELSE (IF loc_accepted(Head(urlset), allowed_domain)
          THEN <<Head(urlset).text>> ELSE <<>>)
         \o collect_urls(Tail(urlset), allowed_domain)

\* the outcomes of one GET of a sitemap document
Fetched(kind, urlset, children) == [kind |-> kind, urlset |-> urlset, children |-> children]

SitemapResponses ==
    {Fetched(kind, <<>>, <<>>) : kind \in {"get_fail", "non200", "malformed"}}
    \cup {Fetched("urlset", u, <<>>) : u \in UrlSets}
    \cup {Fetched("sitemapindex", <<>>, c) : c \in ChildLists}

\* faulty variant: the children named by a child index are taken as page URLs
child_urls_mut(resp, allowed_domain) ==
    IF resp.kind = "sitemapindex"
    THEN LET named == SelectSeq(resp.children, LAMBDA c : c.form = "ok")
         IN  [i \in 1..Len(named) |-> named[i].text]
    ELSE collect_urls(resp.urlset, allowed_domain)

\* the URLs a child of an index contributes: sub_root.findall("ns:url") only, so a
\* child whose root is an index has none (util.py 113-121)
child_urls(resp, allowed_domain) == collect_urls(resp.urlset, allowed_domain)

\* what reading one document leaves in the record of the run: whether URLs were taken
\* from it while a loc on a host that contains allowed_domain was left out, whether a
\* failure came after URLs were collected, whether more were collected after it, and
\* whether the document was a sitemap index
noted(c, resp, where) ==
    LET got == collect_urls(resp.urlset, c.allowed_domain)
        raised == resp.kind \in {"get_fail", "malformed"}
                  \/ \E i \in 1..Len(resp.urlset) : resp.urlset[i].form = "invalid"
        off == \E i \in 1..Len(resp.urlset) :
                    /\ \A h \in 1..i : resp.urlset[h].form # "invalid"
                    /\ resp.urlset[i].form = "ok"
                    /\ ~loc_accepted(resp.urlset[i], c.allowed_domain)
                    /\ str_in(c.allowed_domain, urlparse_netloc(resp.urlset[i].text))
    IN  [c EXCEPT
            !.filtered = IF got # <<>> /\ off THEN @ \cup {where} ELSE @,
            !.read_index = (resp.kind = "sitemapindex"),
            !.failed_with_urls = @ \/ (raised /\ c.urls \o got # <<>>),
            !.grew_after_failure = @ \/ (c.failed_with_urls /\ got # <<>>)]

\* faulty variant: an exception ends the call
next_candidate_mut(c, resp) ==
    IF resp.kind \in {"get_fail", "malformed"}
    THEN [c EXCEPT !.pc = "raised"]
    ELSE [c EXCEPT !.k = @ + 1,
                   !.pc = IF c.k < Len(c.sitemap_urls) THEN "candidate" ELSE "returned"]

\* the next pass of `for sm_url in sitemap_urls`, after the except clauses of
\* util.py 133-136, or return urls (138)
next_candidate(c, resp) ==
    [c EXCEPT !.k = @ + 1,
              !.pc = IF c.k < Len(c.sitemap_urls) THEN "candidate" ELSE "returned"]

SitemapInit ==
    /\ Init
    /\ url = Home /\ topology = "mesh" /\ scope = "subdomain"
    /\ ignore_queries /\ max_pages = DefaultMaxPages /\ site = SiteChain

\* a call get_sitemap_urls(url, allowed_domain) (util.py 66-74)
SitemapCall ==
    /\ sm.pc = "idle"
    /\ \E d \in AllowedDomains : sm' = [sm EXCEPT !.pc = "robots", !.allowed_domain = d]
    /\ UNCHANGED <<args, crawl, sc, ec, dl, rb, ins, cc, scr>>

\* GET /robots.txt, its Sitemap: lines, and the default candidate (util.py 77-89)
SitemapRobots ==
    /\ sm.pc = "robots"
    /\ \E fetch \in {"fail", "ok"}, status_code \in {200, 404}, text \in RobotsTexts :
        sm' = [sm EXCEPT
                !.sitemap_urls = sitemap_candidates(fetch, status_code, text),
                !.pc = "candidate"]
    /\ UNCHANGED <<args, crawl, sc, ec, dl, rb, ins, cc, scr>>

\* one pass of `for sm_url in sitemap_urls` up to the first request of a child
\* (util.py 91-136)
SitemapCandidate ==
    /\ sm.pc = "candidate"
    /\ \E resp \in SitemapResponses :
        LET c == noted(sm, resp, "direct")
            got == collect_urls(resp.urlset, sm.allowed_domain)
        IN  sm' = IF resp.kind = "sitemapindex" /\ resp.children # <<>>
                  THEN [c EXCEPT !.children = resp.children, !.j = 1, !.pc = "child"]
                  ELSE next_candidate([c EXCEPT !.urls = @ \o got], resp)
    /\ UNCHANGED <<args, crawl, sc, ec, dl, rb, ins, cc, scr>>

\* one pass of the loop over the <sitemap> elements of an index (util.py 105-124);
\* an element without <loc> is passed over, a child that is itself an index has no
\* <url> elements
SitemapChild ==
    /\ sm.pc = "child"
    /\ \E resp \in SitemapResponses :
        LET child == sm.children[sm.j]
            read == IF child.form = "missing" THEN Fetched("skipped", <<>>, <<>>) ELSE resp
            c == noted(sm, read, "child")
            got == child_urls(read, sm.allowed_domain)
            after == [c EXCEPT !.urls = @ \o got]
        IN  sm' = IF sm.j < Len(sm.children) THEN [after EXCEPT !.j = @ + 1]
                  ELSE next_candidate([after EXCEPT !.children = <<>>, !.j = 1],
                                      Fetched("sitemapindex", <<>>, <<>>))
    /\ UNCHANGED <<args, crawl, sc, ec, dl, rb, ins, cc, scr>>

SitemapNext == SitemapCall \/ SitemapRobots \/ SitemapCandidate \/ SitemapChild

SitemapSpec == SitemapInit /\ [][SitemapNext]_vars

\* ------------------------------------------------------------ sitemap candidates alone
Sm2 == <<"http://", "example.com", "/sm2.xml">>

\* lines of a robots.txt, with a second sitemap and a directive without a value
DirectiveLines ==
    RobotsLines \cup {<<"SITEMAP", ":", " ">> \o Sm2, <<"Sitemap", ":">>}

DirectiveTexts == UNION {[1..n -> DirectiveLines] : n \in 0..MaxRobotsLines}

SelectionInit ==
    /\ Init
    /\ url = Home /\ topology = "mesh" /\ scope = "subdomain"
    /\ ignore_queries /\ max_pages = DefaultMaxPages /\ site = SiteChain

\* the candidates for one outcome of the robots.txt request (util.py 77-89)
SelectCandidates ==
    /\ rb = NoSelection
    /\ \E fetch \in {"fail", "ok"}, status_code \in {200, 404}, text \in DirectiveTexts :
        rb' = [fetch |-> fetch, status_code |-> status_code, text |-> text,
               sitemap_urls |-> sitemap_candidates(fetch, status_code, text)]
    /\ UNCHANGED <<args, crawl, sc, ec, dl, sm, ins, cc, scr>>

SelectionNext == SelectCandidates

SelectionSpec == SelectionInit /\ [][SelectionNext]_vars

\* ------------------------------------------------------------ inspect_site
Sections == <<"header", "nav", "footer">>

AboutUrl == U(Ex, "/about", <<>>)

\* the anchors found inside one landmark region
NavAnchors ==
    {Anchor(<<"/about">>, <<" ", "About", " ">>, FALSE),
     Anchor(<<>>, <<"About">>, FALSE),
     Anchor(<<"/about">>, <<" ">>, FALSE),
     Anchor(<<"/about">>, <<"About">>, TRUE)}

Regions == UNION {[1..n -> NavAnchors] : n \in 0..MaxLinks}

\* faulty variant: the text is neither trimmed nor tested
nav_links_mut(anchors, base) ==
    LET kept == SelectSeq(anchors, LAMBDA a : ~a.detached /\ a.href # <<>>)
    IN  [i \in 1..Len(kept) |-> [text |-> kept[i].text, url |-> urljoin(base, kept[i].href)]]

\* links after the loops over the elements of one section and their anchors; a raise
\* ends the section with the links appended so far (tool.py 76-87)
RECURSIVE nav_links(_, _)
nav_links(anchors, base) ==
    IF anchors = <<>> \/ Head(anchors).detached THEN <<>>
    ELSE LET a == Head(anchors)
             text == strip(a.text)
         IN  (IF a.href # <<>> /\ text # <<>>
              THEN <<[text |-> text, url |-> urljoin(base, a.href)]>> ELSE <<>>)
             \o nav_links(Tail(anchors), base)

\* what get_sitemap_urls(url, domain) returns to inspect_site (tool.py 96-97)
ResolverResults == {<<>>, <<Home>>, <<P, Q>>, <<P, Home, P>>}

\* "/" + path.strip("/").split("/")[0] for a URL of one path segment (tool.py 99-103)
prefix_of(u) == u[Len(urlparse_netloc(u)) + 2]

\* common_prefixes: the prefixes with their counts (tool.py 100-105)
structure_hint_of(urls) ==
    {<<prefix_of(urls[i]), Cardinality({h \in 1..Len(urls) : prefix_of(urls[h]) = prefix_of(urls[i])})>> :
        i \in 1..Len(urls)}

\* faulty variant: the exception is dropped
inspect_caught_mut(c, step) ==
    [c EXCEPT !.failures = @ \cup {step}, !.pc = "close"]

\* except Exception as e: result["error"] = str(e) (tool.py 90-91)
inspect_caught(c, step) ==
    [c EXCEPT !.result.error = TRUE, !.failures = @ \cup {step}, !.pc = "close"]

InspectInit ==
    /\ Init
    /\ url = Home /\ topology = "mesh" /\ scope = "subdomain"
    /\ ignore_queries /\ max_pages = DefaultMaxPages /\ site = SiteChain

\* a call inspect_site(url) (tool.py 9, 49)
InspectCall ==
    /\ ins.pc = "idle"
    /\ ins' = [ins EXCEPT !.pc = "launch"]
    /\ UNCHANGED <<args, crawl, sc, ec, dl, sm, rb, cc, scr>>

\* get_stealth_context, context.new_page, apply_stealth (tool.py 52-54), outside the
\* try
InspectOpen ==
    /\ ins.pc = "launch"
    /\ \E outcome \in {"ok", "launch_fail", "new_context_fail", "new_page_fail",
                       "stealth_fail"} :
        ins' = [ins EXCEPT
                !.browser = IF outcome = "launch_fail" THEN @ ELSE "open",
                !.failures = IF outcome = "ok" THEN @ ELSE {outcome},
                !.pc = IF outcome = "ok" THEN "goto" ELSE "raised"]
    /\ UNCHANGED <<args, crawl, sc, ec, dl, sm, rb, cc, scr>>

\* page.goto(url, wait_until="domcontentloaded", timeout=15000) (tool.py 57)
InspectGoto ==
    /\ ins.pc = "goto"
    /\ \E ok \in BOOLEAN :
        ins' = IF ok THEN [ins EXCEPT !.pc = "title"] ELSE inspect_caught(ins, "goto")
    /\ UNCHANGED <<args, crawl, sc, ec, dl, sm, rb, cc, scr>>

\* result["metadata"]["title"] = await page.title() (tool.py 60)
InspectTitle ==
    /\ ins.pc = "title"
    /\ \E ok \in BOOLEAN :
        ins' = IF ok THEN [ins EXCEPT !.result.title = TRUE, !.pc = "description"]
               ELSE inspect_caught(ins, "title")
    /\ UNCHANGED <<args, crawl, sc, ec, dl, sm, rb, cc, scr>>

\* the description and the keywords meta tags, each in its own try; a raise stores
\* None (tool.py 61-72)
InspectMeta ==
    /\ ins.pc \in {"description", "keywords"}
    /\ \E outcome \in {"value", "None", "raise"} :
        LET read == IF outcome = "value" THEN "value" ELSE "None"
            failed == IF outcome = "raise" THEN {ins.pc} ELSE {}
        IN  ins' = IF ins.pc = "description"
                   THEN [ins EXCEPT !.result.description = read,
                                    !.failures = @ \cup failed, !.pc = "keywords"]
                   ELSE [ins EXCEPT !.result.keywords = read,
                                    !.failures = @ \cup failed, !.pc = "section"]
    /\ UNCHANGED <<args, crawl, sc, ec, dl, sm, rb, cc, scr>>

\* one pass of `for section in ["header", "nav", "footer"]` (tool.py 75-88);
\* page.locator(section).all() may raise, and so may the reading of an anchor
InspectSection ==
    /\ ins.pc = "section"
    /\ \E located \in BOOLEAN, anchors \in Regions :
        LET name == Sections[ins.section]
            found == IF located THEN anchors ELSE <<>>
            raised == ~located \/ \E i \in 1..Len(found) : found[i].detached
        IN  ins' = [ins EXCEPT
                    !.anchors = found,
                    !.result.navigation = @ \o <<nav_links(found, url)>>,
                    !.failures = IF raised THEN @ \cup {name} ELSE @,
                    !.section = @ + 1,
                    !.pc = IF ins.section < Len(Sections) THEN "section" ELSE "close"]
    /\ UNCHANGED <<args, crawl, sc, ec, dl, sm, rb, cc, scr>>

\* finally: await browser.close() (tool.py 92-93)
InspectClose ==
    /\ ins.pc = "close"
    /\ ins' = [ins EXCEPT !.browser = "closed", !.pc = "sitemap"]
    /\ UNCHANGED <<args, crawl, sc, ec, dl, sm, rb, cc, scr>>

\* the sitemap summary and return result (tool.py 95-107)
InspectSitemap ==
    /\ ins.pc = "sitemap"
    /\ \E urls \in ResolverResults :
        ins' = [ins EXCEPT !.sitemap_urls = urls,
                           !.result.total_urls = Len(urls),
                           !.result.structure_hint = structure_hint_of(urls),
                           !.pc = "returned"]
    /\ UNCHANGED <<args, crawl, sc, ec, dl, sm, rb, cc, scr>>

InspectNext ==
    \/ InspectCall \/ InspectOpen \/ InspectGoto \/ InspectTitle \/ InspectMeta
    \/ InspectSection \/ InspectClose \/ InspectSitemap

InspectSpec == InspectInit /\ [][InspectNext]_vars

\* ------------------------------------------------------------ concurrent extract_links calls
\* Calls started together, e.g. by asyncio.gather (examples/concurrent_crawling.py
\* 28-41), run on one event loop and are switched at their awaits.  Each call has its
\* own start_domain, found_urls, queue and visited: they are locals of the coroutine
\* (tool.py 267-270), and tool.py and util.py keep no module-level state.  The calls
\* here share the arguments other than the start URL, all start URLs being on the
\* host of `url` and without fragment or query.  The site answers by URL: robots.txt denies the URLs of `denies`,
\* the navigation to the URLs of `fails` fails; the renderer launches.

\* the start URLs of the second call
CallStarts == {Home, P, Q}
\* the URLs robots.txt denies, and the URLs whose navigation fails
DenySets == {{}, {P}, {R}}
FailSets == {{}, {Home}, {Q}}

\* the locals of one call after tool.py 267-270
call_init(start) ==
    [url |-> start, pc |-> "launch",
     queue |-> <<[url |-> start, depth |-> 0, raw |-> start]>>,
     visited |-> {}, found_urls |-> {}, cur |-> NoEntry]

\* faulty variant: one visited set for all the calls
visited_seen_mut(calls, i) == UNION {calls[k].visited : k \in DOMAIN calls}

\* the set the test `visit_url in visited` of call i reads (tool.py 270, 285)
visited_seen(calls, i) == calls[i].visited

\* call i runs from one await to the next (tool.py 274-352)
call_step(calls, i, denies, fails) ==
    LET c == calls[i]
    IN  CASE c.pc = "launch" -> [c EXCEPT !.pc = "loop"]
          [] c.pc = "loop" ->
                IF c.queue # <<>> /\ Cardinality(c.found_urls) < max_pages
                THEN LET e == Head(c.queue)
                         visit_url == visit_url_of(e.url, ignore_queries)
                         skip == \/ visit_url \in visited_seen(calls, i)
                                 \/ too_deep(e.depth)
                                 \/ scope_skips(scope, urlparse_netloc(e.url),
                                                urlparse_netloc(c.url))
                     IN  [c EXCEPT !.queue = popleft_rest(c.queue),
                                   !.pc = IF skip THEN "loop" ELSE "robots",
                                   !.cur = IF skip THEN NoEntry ELSE e]
                ELSE [c EXCEPT !.pc = "done"]
          [] c.pc = "robots" ->
                IF ~gate_passes(c.cur.url \notin denies)
                THEN [c EXCEPT !.pc = "loop"]
                ELSE [c EXCEPT
                        !.visited = @ \cup {visit_url_of(c.cur.url, ignore_queries)},
                        !.found_urls = found_add(@, c.cur.url),
                        !.pc = IF expands(c.cur.depth) THEN "fetch" ELSE "loop"]
          [] c.pc = "fetch" ->
                LET outcome == IF c.cur.url \in fails THEN "goto_fail" ELSE "ok"
                    links == select_links(topology, anchors_of(site, c.cur.url))
                IN  [c EXCEPT
                        !.queue = enqueue(@, expansion(outcome, links, c.cur.depth)),
                        !.pc = "loop"]
          [] OTHER -> c

ConcurrentInit ==
    /\ Init
    /\ url = Home /\ scope \in {"subdomain", "domain"}
    /\ max_pages = DefaultMaxPages

\* asyncio.gather(extract_links(url), extract_links(start))
ConcurrentCall ==
    /\ cc = NoCalls
    /\ \E start \in CallStarts, denies \in DenySets, fails \in FailSets :
        cc' = [calls |-> <<call_init(url), call_init(start)>>,
               denies |-> denies, fails |-> fails]
    /\ UNCHANGED <<args, crawl, sc, ec, dl, sm, rb, ins, scr>>

\* the event loop resumes call i, which is at `at`, and runs it to its next await
Resume(i, at) ==
    /\ i \in DOMAIN cc.calls
    /\ cc.calls[i].pc = at
    /\ cc' = [cc EXCEPT !.calls[i] = call_step(cc.calls, i, cc.denies, cc.fails)]
    /\ UNCHANGED <<args, crawl, sc, ec, dl, sm, rb, ins, scr>>

\* util.get_stealth_context returned (tool.py 275)
CallLaunch == \E i \in 1..2 : Resume(i, "launch")

\* the loop test, popleft and the skip tests, or the return (tool.py 277-292, 350-352)
CallDequeue == \E i \in 1..2 : Resume(i, "loop")

\* util.is_allowed_by_robots returned (tool.py 295-302)
CallRobots == \E i \in 1..2 : Resume(i, "robots")

\* the expansion of the page (tool.py 303-348)
CallFetch == \E i \in 1..2 : Resume(i, "fetch")

ConcurrentNext == ConcurrentCall \/ CallLaunch \/ CallDequeue \/ CallRobots \/ CallFetch

ConcurrentSpec == ConcurrentInit /\ [][ConcurrentNext]_vars

\* ------------------------------------------------------------ auto_scroll
\* A page is the sequence of values document.body.scrollHeight takes at successive
\* measurements; after the last one the page either keeps that height or starts
\* again from the first.
RECURSIVE SeqsUpTo(_, _)
SeqsUpTo(values, n) ==
    IF n = 0 THEN {<<>>}
    ELSE LET shorter == SeqsUpTo(values, n - 1)
         IN  shorter \cup {Append(q, x) : q \in {r \in shorter : Len(r) = n - 1},
                                          x \in values}

HeightSeqs == SeqsUpTo(1..MaxHeight, MaxMeasures) \ {<<>>}

\* the k-th value of document.body.scrollHeight
height_at(heights, cycles, k) ==
    IF cycles THEN heights[((k - 1) % Len(heights)) + 1]
    ELSE heights[IF k < Len(heights) THEN k ELSE Len(heights)]

\* the measurements explored for one page: one full period after the listed ones
MeasureCap == MaxMeasures + 2

\* faulty variant: a page that got shorter counts as settled
converged_mut(new_height, last_height) == new_height <= last_height

\* `if new_height == last_height: break` (util.py 44-45)
converged(new_height, last_height) == new_height = last_height

ScrollInit ==
    /\ Init
    /\ url = Home /\ topology = "mesh" /\ scope = "subdomain"
    /\ ignore_queries /\ max_pages = DefaultMaxPages /\ site = SiteChain

\* a call auto_scroll(page) (util.py 34)
ScrollCall ==
    /\ scr.pc = "idle"
    /\ \E heights \in HeightSeqs, cycles \in BOOLEAN :
        scr' = [scr EXCEPT !.pc = "first", !.heights = heights, !.cycles = cycles]
    /\ UNCHANGED <<args, crawl, sc, ec, dl, sm, rb, ins, cc>>

\* last_height = await page.evaluate("document.body.scrollHeight") (util.py 38)
FirstMeasure ==
    /\ scr.pc = "first"
    /\ \E ok \in BOOLEAN :
        scr' = IF ok
               THEN [scr EXCEPT !.last_height = height_at(scr.heights, scr.cycles, 1),
                                !.n = 1, !.pc = "scroll"]
               ELSE [scr EXCEPT !.pc = "raised"]
    /\ UNCHANGED <<args, crawl, sc, ec, dl, sm, rb, ins, cc>>

\* await page.evaluate("window.scrollTo(...)"); await asyncio.sleep(1) (util.py 40-41)
ScrollTo ==
    /\ scr.pc = "scroll"
    /\ scr.n < MeasureCap
    /\ \E ok \in BOOLEAN :
        scr' = IF ok THEN [scr EXCEPT !.scrolls = @ + 1, !.pc = "measure"]
               ELSE [scr EXCEPT !.pc = "raised"]
    /\ UNCHANGED <<args, crawl, sc, ec, dl, sm, rb, ins, cc>>

\* new_height = await page.evaluate("document.body.scrollHeight"), the test and
\* last_height = new_height (util.py 42-46)
Measure ==
    /\ scr.pc = "measure"
    /\ \E ok \in BOOLEAN :
        scr' = IF ok
               THEN LET new_height == height_at(scr.heights, scr.cycles, scr.n + 1)
                    IN  IF converged(new_height, scr.last_height)
                        THEN [scr EXCEPT !.n = @ + 1, !.pc = "returned"]
                        ELSE [scr EXCEPT !.n = @ + 1, !.last_height = new_height,
                                         !.pc = "scroll"]
               ELSE [scr EXCEPT !.pc = "raised"]
    /\ UNCHANGED <<args, crawl, sc, ec, dl, sm, rb, ins, cc>>

ScrollNext == ScrollCall \/ FirstMeasure \/ ScrollTo \/ Measure

ScrollSpec == ScrollInit /\ [][ScrollNext]_vars

\* ------------------------------------------------------------ properties
Range(s) == {s[i] : i \in 1..Len(s)}
QueueEntries == Range(queue)

\* C1 (as stated): the found set never holds more than page_limit URLs, for every
\* value of page_limit.
FoundWithinPageLimit == Cardinality(found_urls) <= max_pages

\* C1 (amended): the found set never holds more than page_limit URLs when
\* page_limit >= 0, and stays empty when page_limit is negative.
FoundWithinNonNegativeLimit ==
    Cardinality(found_urls) <= (IF max_pages < 0 THEN 0 ELSE max_pages)

\* the crawl was stopped by the page limit with entries left in the frontier
WitnessStoppedByLimit ==
    /\ pc = "done"
    /\ max_pages >= 2
    /\ Cardinality(found_urls) = max_pages
    /\ queue # <<>>

\* the visited keys a crawl of `site` from `url` can produce: the finite link graph
AllHrefs == {url} \cup UNION {{a.href : a \in Range(site[k])} : k \in DOMAIN site}
VisitKeys ==
    {visit_url_of(url, ignore_queries)}
    \cup {visit_url_of(normalize_link(h, ignore_queries), ignore_queries) : h \in AllHrefs}
Unvisited(keys, seen) == Cardinality(keys \ seen)

\* a measure of the work left: each unvisited key pays for one robots check and one
\* expansion, each queue entry for one dequeue
PcRank(at) ==
    CASE at = "launch" -> 4
      [] at = "robots" -> 3
      [] at = "fetch" -> 3 * MaxAnchors + 2
      [] at = "loop" -> 1
      [] OTHER -> 0
Rank(keys, seen, q, at) ==
    (3 * MaxAnchors + 3) * Unvisited(keys, seen) + 3 * Len(q) + PcRank(at)

\* C2: the crawl terminates and returns.  Every step strictly decreases Rank, a
\* natural number bounded by the finite link graph, so no run has infinitely many
\* steps; a step is possible in every state but the final ones; and once the
\* loop is entered nothing is raised, so the final state is the return.
CrawlTerminates ==
    /\ [][LET keys == VisitKeys
           IN  Rank(keys, visited', queue', pc') < Rank(keys, visited, queue, pc)]_vars
    /\ [](pc \in {"done", "raised"} \/ ENABLED Next)
    /\ [][pc' = "raised" => pc = "launch"]_vars

\* the crawl returned with an empty frontier after a denial, a failed fetch and a
\* link back to a visited page
WitnessReturnedAfterCycle ==
    /\ pc = "done"
    /\ queue = <<>>
    /\ denied # {}
    /\ Len(navigated) >= 3
    /\ Cardinality(Range(navigated)) < Len(navigated) + 1
    /\ site = SiteChain /\ topology = "mesh"
    /\ Home \in visited /\ P \in visited

\* C3: the depth ceiling is 1 for hub_and_spoke and 3 for every other topology;
\* every entry in the queue, and the entry being checked or expanded, has depth
\* <= ceiling, and only an entry of depth < ceiling is expanded.
DepthCeilingEnforced ==
    /\ depth_limit = (IF topology = "hub_and_spoke" THEN 1 ELSE 3)
    /\ \A e \in QueueEntries : e.depth <= depth_limit
    /\ pc \in {"robots", "fetch"} => cur.depth <= depth_limit
    /\ pc = "fetch" => cur.depth < depth_limit

\* a hub_and_spoke crawl marked a depth-1 page visited and went back to the loop
\* without expanding it
WitnessCeilingReached ==
    /\ topology = "hub_and_spoke"
    /\ pc = "loop"
    /\ robots_ret = "allow"
    /\ cur.depth = 1
    /\ cur.url \in found_urls
    /\ fetch_outcome = "none"

\* C4: when the navigation of an expansion fails, the page stays in found, the
\* queue gets no new entry, nothing is raised and the loop goes on.
NavigationFailureContained ==
    [][(pc = "fetch" /\ fetch_outcome' = "goto_fail") =>
        /\ cur.url \in found_urls'
        /\ found_urls' = found_urls
        /\ visited' = visited
        /\ queue' = queue
        /\ pc' = "loop"
        /\ browser' = "open"]_vars

\* a navigation failed on a page that has anchors, and entries remain to be processed
WitnessNavigationFailed ==
    /\ fetch_outcome = "goto_fail"
    /\ pc = "loop"
    /\ cur.url \in found_urls
    /\ select_links(topology, anchors_of(site, cur.url)) # <<>>
    /\ queue # <<>>

\* C5 (as stated): a URL for which the gate answered deny is never in visited or
\* found and is never navigated to.
DeniedUrlNeverVisited ==
    \A u \in denied :
        /\ u \notin found_urls
        /\ visit_url_of(u, ignore_queries) \notin visited
        /\ u \notin Range(navigated)

\* C5 (amended): an entry for which the gate answers deny is dropped without
\* touching visited, found or the navigations; visited and found change only in
\* the step in which the gate answers allow, and a page is navigated to only
\* after the gate allowed it and it was added to found.
GateBeforeVisit ==
    [][/\ (pc = "robots" /\ robots_ret' = "deny") =>
            (UNCHANGED <<visited, found_urls, navigated>> /\ pc' = "loop")
       /\ (visited' # visited \/ found_urls' # found_urls) =>
            (pc = "robots" /\ robots_ret' = "allow")
       /\ (navigated' # navigated) =>
            /\ pc = "fetch"
            /\ robots_ret = "allow"
            /\ cur.url \in found_urls
            /\ navigated' = Append(navigated, cur.url)]_vars

\* a URL denied for one entry was added to found through a later entry
WitnessDeniedThenAllowed ==
    \E u \in denied : u \in found_urls /\ u \in Range(navigated)

\* C6: the gate answers deny only for a 200 response whose parsed rules disallow
\* the URL; on a timeout, an error, a non-200 status or a parse failure it answers
\* allow, and nothing is raised.
GateFailsOpen ==
    /\ robots_ret = "deny" =>
        /\ robots_resp.fetch = "ok"
        /\ robots_resp.status_code = 200
        /\ robots_resp.parse = "ok"
        /\ ~robots_resp.can_fetch
    /\ ( /\ robots_resp # NoResponse
         /\ \/ robots_resp.fetch # "ok"
            \/ robots_resp.status_code # 200
            \/ robots_resp.parse = "raises" ) => robots_ret = "allow"
    /\ robots_ret # "none" => pc # "raised"

\* the robots.txt request timed out and the URL was allowed and marked visited
WitnessRobotsTimeout ==
    /\ robots_resp.fetch = "timeout"
    /\ robots_ret = "allow"
    /\ cur.url \in found_urls

\* the scope policy of the data model, for C7
InScopeOf(s, host, start) ==
    \/ s = "subdomain" /\ host = start
    \/ s = "domain" /\ str_in(start, host)

\* C7: for scope subdomain or domain, every entry enqueued from a visited page
\* and every URL in found passes the scope predicate against the start host,
\* which is the host of the start URL throughout the crawl.
ScopeInvariant ==
    /\ start_domain = urlparse_netloc(url)
    /\ scope \in {"subdomain", "domain"} =>
        /\ \A e \in QueueEntries :
            e.depth >= 1 => InScopeOf(scope, urlparse_netloc(e.url), start_domain)
        /\ \A u \in found_urls : InScopeOf(scope, urlparse_netloc(u), start_domain)

\* a domain-scope crawl found a page of a subdomain while a page linking to
\* another site had been expanded
WitnessSubdomainFound ==
    /\ scope = "domain"
    /\ start_domain = Ex
    /\ AHome \in found_urls
    /\ AHome \in Range(navigated)
    /\ fetch_outcome = "ok"

\* C8: subdomain accepts iff the hosts are equal; domain accepts a.example.com
\* against example.com and subdomain rejects it; both accept a host equal to the
\* start host, so domain accepts whatever subdomain accepts.  Both guards of the
\* code (the skip at dequeue and in the scorer, the append in the link loop) agree.
ScopePredicateCorrect ==
    /\ sc.scope = "subdomain" =>
        /\ sc.skip <=> sc.cand # sc.start
        /\ sc.enqueue <=> sc.cand = sc.start
    /\ (sc.scope = "domain" /\ sc.cand = sc.start) => (~sc.skip /\ sc.enqueue)
    /\ (sc.cand = AEx /\ sc.start = Ex) =>
        /\ sc.scope = "domain" => (~sc.skip /\ sc.enqueue)
        /\ sc.scope = "subdomain" => (sc.skip /\ ~sc.enqueue)
    /\ sc.scope \in {"subdomain", "domain"} => (sc.enqueue <=> ~sc.skip)

\* the domain scope was evaluated for a.example.com against example.com
WitnessDomainAcceptsSubdomain ==
    /\ sc.scope = "domain"
    /\ sc.cand = AEx
    /\ sc.start = Ex
    /\ sc.enqueue

\* C9: no URL in visited has a fragment, none has a query when ignore_queries is
\* set, and normalizing a URL of visited again changes nothing.
VisitedIsNormalized ==
    \A v \in visited :
        /\ "#" \notin Range(v)
        /\ ignore_queries => "?" \notin Range(v)
        /\ normalize_link(v, ignore_queries) = v

\* C10: visited never holds two distinct entries that come from the same raw URL.
OneVisitedEntryPerRawUrl ==
    \A a \in visited_from, b \in visited_from : a[1] = b[1] => a[2] = b[2]

\* ------------------------------------------------------------ extract_content: properties
RenderFailures ==
    {"goto_fail", "evaluate_fail", "screenshot_fail", "content_fail", "convert_fail",
     "title_fail"}

\* C11: in the result returned by every extract_content call exactly one of markdown
\* and error is populated: after a failure in render, reveal, capture or normalize
\* (reading the title included) the result has an error and markdown is null; without
\* such a failure markdown is non-null and there is no error
MarkdownXorError ==
    ec.pc = "returned" =>
        /\ ec.failed \in RenderFailures =>
            ec.result.error /\ ec.result.markdown = "None"
        /\ ec.failed \notin RenderFailures =>
            ~ec.result.error /\ ec.result.markdown # "None"

ProbedJson == ec.head = "ok" /\ str_in(<<"application/json">>, lower(ec.content_type))

JsonTerminal ==
    /\ ec.pc = "returned"
    /\ ec.result.markdown = "json_block"
    /\ ec.result.type = "json"
    /\ ~ec.launched

\* C12 as stated: once the probe reports a JSON content type the renderer is never
\* invoked and the call ends in the JSON terminal state, whatever the outcome of the
\* body fetch and JSON decoding
JsonProbeIsTerminal ==
    ProbedJson =>
        /\ ~ec.launched
        /\ ec.pc \in {"returned", "raised"} => JsonTerminal

\* C12, amended: after a JSON probe the call ends in the JSON terminal state without
\* invoking the renderer when the body is fetched and decoded; when the body fetch or
\* the decoding raises, the call leaves the JSON branch without a JSON result and goes
\* on to the renderer
JsonTerminalWhenBodyDecodes ==
    ProbedJson =>
        /\ ec.body = "none" => ec.pc = "get_body" /\ ~ec.launched
        /\ ec.body = "ok" => JsonTerminal
        /\ ec.body \in {"get_fail", "decode_fail"} =>
            /\ ec.result.markdown # "json_block" /\ ec.result.type # "json"
            /\ ec.pc = "launch" \/ ec.launched

WitnessJsonTerminal ==
    ProbedJson /\ ec.body = "ok" /\ JsonTerminal /\ ec.content_type[1] = "Application/JSON"

ProbedPdf == ec.head = "ok" /\ str_in(<<"application/pdf">>, lower(ec.content_type))

\* C30: when the probe reports a content type containing application/pdf the call
\* returns at once: markdown is the fixed placeholder, the metadata type is "pdf",
\* there is no error, the body is not fetched and no renderer is launched
PdfProbeIsTerminal ==
    ProbedPdf =>
        /\ ec.pc = "returned"
        /\ ec.result.markdown = "pdf_placeholder"
        /\ ec.result.type = "pdf"
        /\ ~ec.result.error
        /\ ec.body = "none"
        /\ ~ec.launched /\ ec.browser = "none"

WitnessPdfTerminal ==
    ProbedPdf /\ ec.pc = "returned" /\ ec.result.markdown = "pdf_placeholder"

\* the metadata type the branch that produced the markdown should record
type_of_markdown(markdown) ==
    CASE markdown = "pdf_placeholder" -> "pdf"
      [] markdown = "json_block" -> "json"
      [] markdown = "page_markdown" -> "html"
      [] OTHER -> "None"

\* C26: every returned result that carries markdown has the metadata type of the
\* branch taken: "pdf", "json", or "html" for a rendered and normalized page
TypeByBranch ==
    ec.pc = "returned" /\ ec.result.markdown # "None" =>
        ec.result.type = type_of_markdown(ec.result.markdown)

\* C13: every call that acquired a rendering session has closed it when it returns or
\* raises (extract_content, and extract_links of the crawl)
SessionClosedOnExit ==
    /\ ec.pc \in {"returned", "raised"} => ec.browser # "open"
    /\ pc \in {"done", "raised"} => browser # "open"

\* C14: no failure is raised to the caller of extract_content: a failure of the
\* renderer is recovered or is the error field of the returned result
NoFailureRaised ==
    /\ ec.pc # "raised"
    /\ ec.pc = "returned" /\ ec.failed # "none" => ec.result.error

\* ------------------------------------------------------------ discover_links: properties
Candidates == Range(dl.discovered) \cup Range(dl.result)

\* the keyword positions whose lowered keyword occurs in the lowered string
Hits(keywords, str) ==
    {k \in 1..Len(keywords) : str_in(lower(keywords[k]), lower(str))}

\* url:<kw>, text:<kw> for every keyword, in input order
AllTags(keywords) ==
    [j \in 1..(2 * Len(keywords)) |->
        IF j % 2 = 1 THEN <<"url:", keywords[(j + 1) \div 2]>>
        ELSE <<"text:", keywords[j \div 2]>>]

\* an anchor the loop neither skips nor fails on
Eligible(a) ==
    /\ ~a.detached
    /\ a.href # <<>>
    /\ ~scope_skips(dl.scope, urlparse_netloc(urljoin(url, a.href)), urlparse_netloc(url))

\* C15: a candidate's score is 5 per keyword found in its URL plus 10 per keyword found
\* in its text (case-insensitive), its matches are the tags of these hits, url before
\* text, keywords in input order; a scanned anchor is in the result exactly when it is
\* eligible and its total is above 0
ScoringAdditive ==
    /\ \A c \in Candidates :
        LET tagged(t) == IF t[1] = "url:" THEN str_in(lower(t[2]), lower(c.url))
                         ELSE str_in(lower(t[2]), lower(c.text))
        IN  /\ c.score = 5 * Cardinality(Hits(dl.keywords, c.url))
                         + 10 * Cardinality(Hits(dl.keywords, c.text))
            /\ c.score > 0
            /\ c.matches = SelectSeq(AllTags(dl.keywords), tagged)
    /\ dl.pc = "returned" /\ dl.failed = "none" =>
        \A i \in 1..Len(dl.page) :
            LET a == dl.page[i]
            IN  (\E c \in Range(dl.result) : c.anchor = i)
                <=> /\ Eligible(a)
                    /\ Hits(dl.keywords, urljoin(url, a.href))
                       \cup Hits(dl.keywords, strip(a.text)) # {}

WitnessApiReferenceScores15 ==
    /\ dl.pc = "returned"
    /\ dl.keywords = <<<<"api">>>>
    /\ \E c \in Range(dl.result) :
        /\ c.text = <<"API", " ", "Reference">>
        /\ c.url = ApiUrl
        /\ c.score = 15
        /\ c.matches = << <<"url:", <<"api">>>>, <<"text:", <<"api">>>> >>
    /\ \E i \in 1..Len(dl.page) : \A c \in Range(dl.result) : c.anchor # i

\* C16: the returned list is ordered by score descending, and candidates of equal
\* score are in the order in which their anchors were met
SortedStable ==
    dl.pc = "returned" =>
        \A i, j \in 1..Len(dl.result) :
            i < j =>
                /\ dl.result[i].score >= dl.result[j].score
                /\ dl.result[i].score = dl.result[j].score =>
                    dl.result[i].anchor < dl.result[j].anchor

WitnessTieInEncounterOrder ==
    /\ dl.pc = "returned"
    /\ Len(dl.result) = 2
    /\ dl.result[1].score = dl.result[2].score
    /\ dl.result[1].url # dl.result[2].url

\* C17: every candidate of the result comes from an anchor with a non-empty href and
\* a non-empty trimmed text whose host passes the scope test
CandidatesFromValidAnchors ==
    \A c \in Range(dl.result) :
        LET a == dl.page[c.anchor]
        IN  /\ a.href # <<>>
            /\ strip(a.text) # <<>>
            /\ ~scope_skips(dl.scope, urlparse_netloc(c.url), urlparse_netloc(url))

\* C18: no two entries of the returned list have the same url
ResultDeduplicated ==
    \A i, j \in 1..Len(dl.result) :
        i # j => dl.result[i].url # dl.result[j].url

\* ------------------------------------------------------------ get_sitemap_urls: properties
\* C19: every URL collected by get_sitemap_urls has a host equal to allowed_domain
SitemapUrlsOnAllowedDomain ==
    \A i \in 1..Len(sm.urls) : urlparse_netloc(sm.urls[i]) = sm.allowed_domain

WitnessSubdomainLocExcluded ==
    /\ sm.pc = "returned"
    /\ sm.allowed_domain = Ex
    /\ sm.filtered = {"direct", "child"}

IsPrefix(a, b) == Len(a) <= Len(b) /\ SubSeq(b, 1, Len(a)) = a

\* C20: get_sitemap_urls never raises; a failure at robots.txt, at a candidate or at a
\* child of an index leaves the URLs collected so far in place, and the loops over
\* the candidates and over the children of an index end only after their last element
SitemapFailuresSwallowed ==
    /\ [](sm.pc # "raised")
    /\ [][/\ IsPrefix(sm.urls, sm'.urls)
          /\ sm.pc = "child" /\ sm'.pc # "child" => sm.j = Len(sm.children)
          /\ sm'.pc = "returned" => sm.k = Len(sm.sitemap_urls)]_vars

WitnessUrlsKeptAcrossFailure ==
    /\ sm.pc = "returned"
    /\ sm.failed_with_urls
    /\ sm.grew_after_failure
    /\ Len(sm.sitemap_urls) = 2

\* ------------------------------------------------------------ sitemap candidates: properties
\* a line whose key is Sitemap:, in any case
IsDirective(line) ==
    Len(line) >= 2 /\ lower_tok(line[1]) = "sitemap" /\ line[2] = ":"

\* C21: the candidates are the values of the Sitemap: lines of a robots.txt answered
\* with 200, in file order; the fallback /sitemap.xml is the only candidate exactly
\* when no such line was collected
CandidateSelection ==
    rb # NoSelection =>
        LET directives == IF rb.fetch = "ok" /\ rb.status_code = 200
                          THEN SelectSeq(rb.text, IsDirective) ELSE <<>>
        IN  IF directives = <<>> THEN rb.sitemap_urls = <<DefaultSitemap>>
            ELSE /\ Len(rb.sitemap_urls) = Len(directives)
                 /\ \A i \in 1..Len(directives) :
                        rb.sitemap_urls[i]
                            = strip(SubSeq(directives[i], 3, Len(directives[i])))
                 /\ \A i \in 1..Len(rb.sitemap_urls) :
                        rb.sitemap_urls[i] = DefaultSitemap =>
                            \E d \in 1..Len(directives) :
                                str_in(DefaultSitemap, directives[d])

WitnessCandidatesInFileOrder ==
    /\ rb.sitemap_urls = <<Sm2, Sm1>>
    /\ Len(rb.text) = 2

\* C22: index resolution goes one level deep: a child of an index that is itself an
\* index adds no URL and its own children are never queued; URLs are added only by
\* reading a candidate or a child of a candidate's index
OneLevelIndexResolution ==
    [][/\ sm.pc = "child" =>
            /\ sm'.children \in {sm.children, <<>>}
            /\ sm'.read_index => sm'.urls = sm.urls
       /\ sm'.urls # sm.urls => sm.pc \in {"candidate", "child"} /\ ~sm'.read_index
       /\ sm.pc = "candidate" /\ sm'.pc = "child" => sm'.read_index /\ sm'.urls = sm.urls]_vars

WitnessUrlThroughIndex ==
    /\ sm.pc = "returned"
    /\ sm.sitemap_urls = <<Sm1>>
    /\ sm.filtered = {"child"}
    /\ sm.urls = <<P>>

\* ------------------------------------------------------------ inspect_site: properties
SummaryComputed ==
    /\ ins.result.total_urls = Len(ins.sitemap_urls)
    /\ \A i \in 1..Len(ins.sitemap_urls) :
        \E h \in ins.result.structure_hint :
            h[1] = prefix_of(ins.sitemap_urls[i]) /\ h[2] >= 1
    /\ \A h \in ins.result.structure_hint :
        \E i \in 1..Len(ins.sitemap_urls) : h[1] = prefix_of(ins.sitemap_urls[i])

\* C23 as stated: a failure of the navigation, of the title read or of a metadata read
\* is in the error field of the returned result, and the sitemap summary is computed
RenderFailureRecorded ==
    ins.pc = "returned" =>
        /\ ins.failures \cap {"goto", "title", "description", "keywords"} # {}
            => ins.result.error
        /\ SummaryComputed

\* C23, amended: a failure of the navigation or of the title read is the error field of
\* the returned result; a failed read of the description or of the keywords stores a
\* null value and a failed section keeps its links, neither with an error; the sitemap
\* summary is computed in every returned result
RenderFailureRecordedExceptMeta ==
    ins.pc = "returned" =>
        /\ ins.result.error <=> ins.failures \cap {"goto", "title"} # {}
        /\ "description" \in ins.failures => ins.result.description = "None"
        /\ "keywords" \in ins.failures => ins.result.keywords = "None"
        /\ SummaryComputed

WitnessTitleFailedSummaryKept ==
    /\ ins.pc = "returned"
    /\ ins.failures = {"title"}
    /\ ins.result.error
    /\ ins.result.total_urls = 3
    /\ ins.result.structure_hint = {<<"/p", 2>>, <<"/", 1>>}

\* the links expected of the anchors of one section: those read before the first
\* failure that have an href and a text, with the text trimmed and the href resolved
ExpectedLinks(anchors) ==
    LET failing == {i \in 1..Len(anchors) : anchors[i].detached}
        upto == IF failing = {} THEN Len(anchors)
                ELSE (CHOOSE i \in failing : \A h \in failing : i <= h) - 1
        valid == SelectSeq(SubSeq(anchors, 1, upto),
                           LAMBDA a : a.href # <<>> /\ strip(a.text) # <<>>)
    IN  [i \in 1..Len(valid) |-> [text |-> <<"About">>, url |-> AboutUrl]]

\* C25: after a render without error the navigation has an entry for header, nav and
\* footer; the entry of a section lists, for its anchors with an href and a text, the
\* trimmed text with the resolved href; reading a section leaves the entries of the
\* other sections as they were, whether it fails or not
NavigationBySection ==
    /\ [](/\ ins.pc \in {"close", "sitemap", "returned"} /\ ~ins.result.error
                => Len(ins.result.navigation) = Len(Sections)
          /\ ins.section > 1
                => ins.result.navigation[ins.section - 1] = ExpectedLinks(ins.anchors))
    /\ [][ins.pc = "section" =>
            /\ Len(ins'.result.navigation) = Len(ins.result.navigation) + 1
            /\ SubSeq(ins'.result.navigation, 1, Len(ins.result.navigation))
                    = ins.result.navigation
            /\ ~ins'.result.error]_vars

WitnessSectionFailureIsolated ==
    /\ ins.pc = "returned"
    /\ ~ins.result.error
    /\ ins.failures = {"nav"}
    /\ ins.result.navigation[1] = <<[text |-> <<"About">>, url |-> AboutUrl]>>
    /\ ins.result.navigation[2] = <<>>
    /\ Len(ins.result.navigation[3]) = 2

\* ------------------------------------------------------------ extract_links: order of the frontier
\* C27: the frontier is FIFO for every topology: the queue changes only by losing
\* its first entry at a dequeue or by gaining entries at its end in an expansion;
\* the depths in the queue are non-decreasing from front to back and differ by at
\* most 1, no entry is shallower than the entry being processed, and the depths of
\* successively dequeued entries are non-decreasing
FrontierIsFifo ==
    /\ [](/\ \A i \in 1..Len(queue), j \in 1..Len(queue) :
                i <= j => /\ queue[i].depth <= queue[j].depth
                          /\ queue[j].depth <= queue[i].depth + 1
          /\ pc \in {"robots", "fetch"} =>
                \A e \in QueueEntries : /\ cur.depth <= e.depth
                                        /\ e.depth <= cur.depth + 1)
    /\ [][/\ queue' # queue =>
                \/ pc = "loop" /\ queue' = Tail(queue)
                \/ pc = "fetch" /\ IsPrefix(queue, queue')
          /\ (pc = "loop" /\ pc' = "robots") => cur' = Head(queue)
          /\ (pc = "loop" /\ queue' # queue /\ queue' # <<>>) =>
                Head(queue).depth <= Head(queue').depth]_vars

\* entries of two depths wait behind one another after entries of the first depth
\* were dequeued and expanded
WitnessTwoDepthsQueued ==
    /\ Len(queue) >= 2
    /\ queue[1].depth = 1
    /\ queue[Len(queue)].depth = 2
    /\ Len(navigated) >= 2

\* the links selected on the start page, as the link loop enqueues them
StartPageLinks ==
    {normalize_link(h, ignore_queries) :
        h \in Range(select_links(topology, anchors_of(site, url)))}

\* C28: a page is navigated to only in the expansion that follows the step that
\* marked it visited, and only when its depth is below the ceiling; a page at the
\* ceiling is added to found and not fetched.  A hub_and_spoke crawl navigates at
\* most once, to the start URL, and finds only the start URL and the links selected
\* on the start page
NavigatedOnlyBelowCeiling ==
    /\ [](/\ pc = "fetch" =>
                /\ cur.depth < depth_limit
                /\ cur.url \in found_urls
                /\ visit_url_of(cur.url, ignore_queries) \in visited
          /\ topology = "hub_and_spoke" =>
                /\ Len(navigated) <= 1
                /\ Range(navigated) \subseteq {url}
                /\ found_urls \subseteq {url} \cup StartPageLinks)
    /\ [][/\ navigated' # navigated =>
                pc = "fetch" /\ navigated' = Append(navigated, cur.url)
          /\ (pc # "fetch" /\ pc' = "fetch") =>
                /\ pc = "robots"
                /\ visit_url_of(cur.url, ignore_queries) \notin visited
                /\ visit_url_of(cur.url, ignore_queries) \in visited'
                /\ cur' = cur
          /\ (pc = "robots" /\ robots_ret' = "allow" /\ cur.depth >= depth_limit) =>
                /\ cur.url \in found_urls'
                /\ pc' = "loop"
                /\ navigated' = navigated]_vars

\* a hub_and_spoke crawl returned after one navigation with pages of depth 1 in found
WitnessHubOneHop ==
    /\ topology = "hub_and_spoke"
    /\ pc = "done"
    /\ navigated = <<url>>
    /\ Cardinality(found_urls) >= 3
    /\ \E u \in found_urls : u # url /\ anchors_of(site, u) # <<>>

\* C29: each normalized URL passes the visit step at most once in a run: no two
\* entries of visited are the same URL after normalization, and no two navigations
\* of the run go to the same normalized URL
VisitedOncePerNormalizedUrl ==
    /\ \A v \in visited, w \in visited :
        normalize_link(v, ignore_queries) = normalize_link(w, ignore_queries) => v = w
    /\ \A i \in 1..Len(navigated), j \in 1..Len(navigated) :
        i < j => normalize_link(navigated[i], ignore_queries)
                    # normalize_link(navigated[j], ignore_queries)

\* ------------------------------------------------------------ concurrent calls: properties
\* the call run alone from `c` against the same answers of the site
RECURSIVE run_alone(_, _, _)
run_alone(c, denies, fails) ==
    IF c.pc = "done" THEN c ELSE run_alone(call_step(<<c>>, 1, denies, fails), denies, fails)

RaisedBeforeTry == {"launch_fail", "new_context_fail", "new_page_fail", "stealth_fail"}

\* C31: when the probe fails, or reports a content type that is neither PDF nor JSON,
\* the call goes on to the renderer with an untouched result; the failure of the
\* probe is never the error of the result and is never raised: an error comes from a
\* render step only, a raise from the acquisition of the page only
ProbeFallsThroughToRender ==
    /\ [](/\ ec.result.error => ec.failed \in RenderFailures
          /\ ec.pc = "raised" => ec.failed \in RaisedBeforeTry
          /\ (ec.head = "fail" /\ ec.pc = "returned") => ec.launched)
    /\ [][(/\ ec.pc = "probe"
           /\ \/ ec'.head = "fail"
              \/ ec'.head = "ok" /\ ~ProbedPdf' /\ ~ProbedJson') =>
            /\ ec'.pc = "launch"
            /\ ec'.result = ec.result
            /\ ec'.failed = "none"]_vars

\* the probe failed and the page was rendered and returned as markdown without error
WitnessProbeFailedRendered ==
    /\ ec.head = "fail"
    /\ ec.pc = "returned"
    /\ ec.result.markdown = "page_markdown"
    /\ ~ec.result.error

\* C32: when the navigation of the render step fails the call goes straight to the
\* error state: no selector is clicked, nothing is scrolled, no screenshot is taken
\* and nothing is normalized; markdown and screenshot are null, error is set, and the
\* session is closed before the call returns
NavigationFailureIsTerminal ==
    ec.failed = "goto_fail" =>
        /\ ec.clicks = <<>> /\ ec.selector = 1
        /\ ec.scrolls = 0
        /\ ec.result.screenshot = "None"
        /\ ec.result.markdown = "None"
        /\ ~ec.result.title /\ ~ec.result.url
        /\ ec.result.error
        /\ ec.pc \in {"close", "returned"}
        /\ ec.pc = "returned" => ec.browser = "closed"

\* a call with click selectors and a screenshot asked for returned after a failed
\* navigation
WitnessNavigationFailedReturned ==
    /\ ec.failed = "goto_fail"
    /\ ec.pc = "returned"
    /\ ec.click_selectors = MaxSelectors
    /\ ec.screenshot

\* the calls whose navigation succeeded and that are past the click loop
PastClickLoop ==
    ec.pc \in {"scroll", "screenshot", "content", "title"}
    \/ (ec.pc \in {"close", "returned"} /\ ec.launched /\ ec.failed # "goto_fail")

\* C33: every click selector is attempted once, in list order, whatever the outcome
\* of the clicks before it; a failed click or settle wait changes nothing in the
\* result, the call goes on to auto_scroll, and no error comes from a click
ClicksSwallowed ==
    /\ [](/\ Len(ec.clicks) = ec.selector - 1
          /\ Len(ec.clicks) <= ec.click_selectors
          /\ PastClickLoop => Len(ec.clicks) = ec.click_selectors
          /\ ec.failed \notin {"click_fail", "wait_fail"})
    /\ [][ec.pc = "click" =>
            /\ \E outcome \in {"ok", "click_fail", "wait_fail"} :
                    ec'.clicks = Append(ec.clicks, outcome)
            /\ ec'.selector = ec.selector + 1
            /\ ec'.result = ec.result
            /\ ec'.pc = IF ec.selector < ec.click_selectors THEN "click" ELSE "scroll"]_vars

\* the first selector failed, the second was still clicked, and the call returned
\* the page's markdown without error
WitnessClickFailedThenNext ==
    /\ Len(ec.clicks) >= 2
    /\ ec.clicks[1] = "click_fail"
    /\ ec.clicks[2] = "ok"
    /\ ec.pc = "returned"
    /\ ec.result.markdown = "page_markdown"
    /\ ~ec.result.error

\* ------------------------------------------------------------ auto_scroll: properties
\* the measurements k >= 2 of the page in `scr` that equal the one before
EqualPairs ==
    {k \in 2..(MeasureCap + 1) :
        height_at(scr.heights, scr.cycles, k) = height_at(scr.heights, scr.cycles, k - 1)}

\* C34: auto_scroll scrolls at least once and returns exactly at the first measurement
\* that equals the one before it, one scroll per measurement after the first.  There
\* is no cap: on a page whose height stops changing the loop never measures past the
\* first equal pair and always has a next step until it returns or raises; on a page
\* whose height differs at every measurement it does not return
ScrollUntilStable ==
    /\ [](scr.pc # "idle" =>
          /\ scr.pc = "returned" =>
                /\ scr.scrolls >= 1
                /\ scr.scrolls = scr.n - 1
                /\ scr.n \in EqualPairs
          /\ \A k \in EqualPairs : scr.n <= k
          /\ EqualPairs = {} => scr.pc # "returned"
          /\ (scr.pc \notin {"returned", "raised"} /\ scr.n < MeasureCap) => ENABLED ScrollNext
          /\ (scr.pc = "scroll" /\ scr.n >= 1) =>
                /\ scr.scrolls = scr.n - 1
                /\ \A k \in 2..scr.n : k \notin EqualPairs)
    /\ [][(scr.pc = "measure" /\ scr'.pc = "scroll") => scr'.n = scr.n + 1]_vars

\* the page grew, shrank, and then kept its height: three scrolls, return at the
\* fourth measurement
WitnessSettledAfterGrowth ==
    /\ scr.pc = "returned"
    /\ ~scr.cycles
    /\ scr.heights = <<1, 2, 1>>
    /\ scr.scrolls = 3
    /\ scr.n = 4

\* ------------------------------------------------------------ discover_links: failures
\* the anchors of the page in `dl` that yield an entry
Scored ==
    {k \in 1..Len(dl.page) :
        discovered_from(dl.page[k], k, dl.keywords, dl.scope, url) # <<>>}

\* C35: discover_links does not raise because of the page: when the navigation or the
\* enumeration of the anchors fails it returns the list collected so far, which is
\* empty; an exception on one anchor skips that anchor only, the anchors after it
\* are still scored.  The only raises come from the acquisition of the session
DiscoverFailuresContained ==
    /\ [](/\ dl.failed \in {"goto_fail", "locator_fail"} =>
                /\ dl.pc \in {"close", "returned"}
                /\ dl.discovered = <<>>
                /\ dl.pc = "returned" => dl.result = <<>> /\ dl.browser = "closed"
          /\ dl.pc = "raised" => dl.failed \in RaisedBeforeTry
          /\ (dl.pc = "returned" /\ dl.failed = "none") =>
                /\ dl.i = Len(dl.page) + 1
                /\ {e.anchor : e \in Range(dl.result)} = Scored)
    /\ [][(dl.pc = "anchor" /\ dl.page[dl.i].detached) =>
            /\ dl'.discovered = dl.discovered
            /\ dl'.i = dl.i + 1
            /\ dl'.pc = IF dl.i < Len(dl.page) THEN "anchor" ELSE "close"]_vars

\* an anchor raised and an anchor after it is in the returned list
WitnessAnchorAfterFailureScored ==
    /\ dl.pc = "returned"
    /\ \E e \in Range(dl.result) :
        \E k \in 1..(e.anchor - 1) : dl.page[k].detached

\* ------------------------------------------------------------ extract_links: what a crawl returns
\* the URLs one hop from u: the normalized hrefs of the anchors the topology selects
\* on u that start with http, pass the scope predicate against the start host and
\* are allowed by robots.txt
hop_targets(u, start, denies) ==
    {l \in {normalize_link(h, ignore_queries) :
                h \in Range(select_links(topology, anchors_of(site, u)))} :
        /\ startswith_http(l)
        /\ InScopeOf(scope, urlparse_netloc(l), urlparse_netloc(start))
        /\ l \notin denies}

RECURSIVE within_hops(_, _, _, _)
within_hops(reached, hops, start, denies) ==
    IF hops = 0 THEN reached
    ELSE within_hops(reached \cup UNION {hop_targets(u, start, denies) : u \in reached},
                     hops - 1, start, denies)

Reachable(start, denies) ==
    IF start \in denies THEN {} ELSE within_hops({start}, depth_limit, start, denies)

\* C36: for a start URL without fragment or query, scope subdomain or domain, no
\* failed page fetch and a page limit that is not reached, the returned set is
\* exactly the set of URLs reachable from the start URL in at most depth_limit hops
\* through URLs robots.txt allows
CrawlComplete ==
    \A i \in DOMAIN cc.calls :
        ( /\ cc.calls[i].pc = "done"
          /\ cc.fails = {}
          /\ Cardinality(cc.calls[i].found_urls) < max_pages ) =>
            cc.calls[i].found_urls = Reachable(cc.calls[i].url, cc.denies)

\* a sidebar crawl of the domain returned pages two hops away, a page on a
\* subdomain among them, while robots.txt denied a page
WitnessReachableReturned ==
    /\ cc.calls # <<>>
    /\ cc.calls[1].pc = "done"
    /\ cc.fails = {}
    /\ cc.denies # {}
    /\ topology # "mesh"
    /\ scope = "domain"
    /\ Cardinality(cc.calls[1].found_urls) >= 3
    /\ \E u \in cc.calls[1].found_urls : urlparse_netloc(u) # urlparse_netloc(url)
    /\ \E u \in cc.calls[1].found_urls :
            u \notin {url} \cup hop_targets(url, url, cc.denies)

UnknownScopeReturnsStartOnly ==
    /\ [](scope \notin {"subdomain", "domain"} =>
            /\ found_urls \subseteq {url}
            /\ queue \in {<<>>, <<[url |-> url, depth |-> 0, raw |-> url]>>}
            /\ Range(navigated) \subseteq {url}
            /\ denied \subseteq {url}
            /\ Len(navigated) <= 1)
    /\ [][(scope \notin {"subdomain", "domain"} /\ pc = "loop" /\ pc' # "done") =>
            pc' = "robots" /\ cur'.url = url]_vars

\* a crawl with scope path expanded a start page that has links and returned the
\* start URL alone
WitnessPathScopeStartOnly ==
    /\ scope = "path"
    /\ pc = "done"
    /\ found_urls = {url}
    /\ navigated = <<url>>
    /\ select_links(topology, anchors_of(site, url)) # <<>>
    /\ max_pages > 1

\* C39: for scope subdomain or domain the start URL passes the scope test; the
\* returned set contains the start URL exactly when the page limit is at least 1 and
\* the gate allowed the start URL; when the gate denied it or the page limit is 0 or
\* less, found is empty and no page is navigated to
StartUrlFoundIffAllowed ==
    scope \in {"subdomain", "domain"} =>
        /\ ~scope_skips(scope, urlparse_netloc(url), start_domain)
        /\ pc = "done" => (url \in found_urls <=> (max_pages >= 1 /\ url \notin denied))
        /\ (url \in denied \/ max_pages <= 0) =>
            /\ found_urls = {}
            /\ navigated = <<>>
            /\ pc \in {"launch", "raised"} \/ queue = <<>> \/ max_pages <= 0

\* the gate denied the start URL of a domain-scope crawl, which returned nothing
WitnessStartDenied ==
    /\ scope = "domain"
    /\ url \in denied
    /\ pc = "done"
    /\ found_urls = {}
    /\ max_pages >= 1

====
